---------------------------- MODULE Spec2Model ----------------------------
(***************************************************************************)
(* Model of the analytics core of AI-CDP: the four aggregators of          *)
(* AIEngine (analyze_sales, analyze_quality, analyze_inventory,            *)
(* analyze_testing), the filter engine AIEngine._apply_filters, the        *)
(* dispatcher AIEngine._execute_analysis, AIEngine.process_chat_query with *)
(* the replies of the intent classifier, and the session state of the AI   *)
(* Assistant page, over the tables DataRetriever produces.                 *)
(*                                                                         *)
(* A DataFrame is a record [cols, rows]: cols is the set of column names,  *)
(* rows the sequence of row records.  DataFrames live in a heap (a         *)
(* sequence of DataFrames, an object's identity being its index), so that  *)
(* "the caller's table" and "the returned table" are distinct notions from *)
(* "a table with these rows".                                              *)
(*                                                                         *)
(* Floating-point values are modelled as exact fractions [num, den]; a     *)
(* denominator 0 encodes the IEEE results of a division by zero: 1/0 is    *)
(* +inf, 0/0 is NaN.  All modelled quantities are non-negative.            *)
(***************************************************************************)
EXTENDS Integers, Sequences, FiniteSets, TLC

VARIABLES
    heap,     \* the DataFrame objects, by identity
    arg,      \* the identity of the table the caller passes
    given,    \* the content of that table when it was passed
    filters,  \* the filter spec of the intent
    now,      \* datetime.now(), in hours
    result,   \* what the call returned
    prev,     \* what the previous call returned
    intent,   \* the intent handed to the dispatcher / the classifier's replies
    api_key,  \* AIEngine.api_key
    session,  \* st.session_state of the AI Assistant page
    pc

vars == <<heap, arg, given, filters, now, result, prev, intent, api_key,
          session, pc>>

\* ------------------------------------------------------------------------
\* Bounds of the model
\* ------------------------------------------------------------------------
MaxRows == 2
MaxTestRows == 5

\* ------------------------------------------------------------------------
\* Numbers
\* ------------------------------------------------------------------------
\* A missing cell (NaN / NaT / None) of a column whose values are integers.
NaT == -1

RECURSIVE GCD(_, _)
GCD(a, b) == IF b = 0 THEN a ELSE GCD(b, a % b)

\* The float n/d for integers n >= 0, d >= 0, in lowest terms.
Div(n, d) ==
    IF d = 0 THEN [num |-> IF n > 0 THEN 1 ELSE 0, den |-> 0]
    ELSE LET g == GCD(n, d) IN [num |-> n \div g, den |-> d \div g]

Num(n) == [num |-> n, den |-> 1]
Inf == [num |-> 1, den |-> 0]
NaN == [num |-> 0, den |-> 0]
IsNaN(x) == x.num = 0 /\ x.den = 0

\* x * k for an integer k > 0
Times(x, k) == IF x.den = 0 THEN x ELSE Div(x.num * k, x.den)

\* IEEE comparisons: every comparison with NaN is false.
Lt(x, y) == ~IsNaN(x) /\ ~IsNaN(y) /\ x.num * y.den < y.num * x.den
Gt(x, y) == Lt(y, x)

\* Series.fillna(0)
FillNa0(x) == IF IsNaN(x) THEN Num(0) ELSE x

\* x + y and x / y for finite x, y (y > 0 in the quotient)
AddR(x, y) == Div(x.num * y.den + y.num * x.den, x.den * y.den)
DivR(x, y) == Div(x.num * y.den, x.den * y.num)

RECURSIVE SumR(_)
SumR(s) == IF s = <<>> THEN Num(0) ELSE AddR(Head(s), SumR(Tail(s)))

\* ------------------------------------------------------------------------
\* Sequences
\* ------------------------------------------------------------------------
RECURSIVE SumSeq(_)
SumSeq(s) == IF s = <<>> THEN 0 ELSE Head(s) + SumSeq(Tail(s))

\* s[i] for the indices i that satisfy Keep, in order (boolean indexing)
SelectIdx(s, Keep(_)) ==
    LET F[i \in 0..Len(s)] ==
            IF i = 0 THEN <<>>
            ELSE IF Keep(i) THEN Append(F[i - 1], s[i]) ELSE F[i - 1]
    IN F[Len(s)]

\* The integers of S in ascending order (the key order of groupby)
RECURSIVE SortedInts(_)
SortedInts(S) ==
    IF S = {} THEN <<>>
    ELSE LET m == CHOOSE x \in S : \A y \in S : x <= y
         IN <<m>> \o SortedInts(S \ {m})

\* DataFrame.sort_values: stable sort of s by the strict weak order Before.
\* Element i goes to position 1 + the number of elements that precede it.
SortBy(s, Before(_, _)) ==
    LET Precedes(j, i) ==
            \/ Before(s[j], s[i])
            \/ (~Before(s[i], s[j]) /\ j < i)
        Rank(i) == 1 + Cardinality({j \in 1..Len(s) : j # i /\ Precedes(j, i)})
    IN [k \in 1..Len(s) |-> s[CHOOSE i \in 1..Len(s) : Rank(i) = k]]

Range(s) == {s[i] : i \in 1..Len(s)}

\* The element of a set of one element
Only(S) == CHOOSE x \in S : TRUE

\* ------------------------------------------------------------------------
\* DataFrames
\* ------------------------------------------------------------------------
\* Python's None, as a filter spec or as the value of one of its fields
None == [null |-> TRUE]

\* pd.DataFrame()
EmptyFrame == [cols |-> {}, rows |-> <<>>]

\* A test that takes no table for empty
IsEmptyNever(df) == FALSE

\* DataFrame.empty
IsEmpty(df) == df.cols = {} \/ df.rows = <<>>

\* pd.to_datetime(ts).dt.date, timestamps being hours since an epoch
DateOf(ts) == IF ts = NaT THEN NaT ELSE ts \div 24


\* df[c] = v on one row: the row with cell c set (the column is added if new)
SetCell(r, c, v) == (c :> v) @@ r

\* Series.sum() of an integer column: missing cells are skipped
ColSum(rows, c) ==
    SumSeq([i \in 1..Len(rows) |-> IF rows[i][c] = NaT THEN 0 ELSE rows[i][c]])

\* Series.sum() of a float column
ColSumR(rows, c) == SumR([i \in 1..Len(rows) |-> rows[i][c]])

\* The keys of df.groupby(key): the distinct non-missing values, ascending
GroupKeys(rows, key) == SortedInts({rows[i][key] : i \in 1..Len(rows)} \ {NaT})

\* The rows of one group
GroupRows(rows, key, k) == SelectIdx(rows, LAMBDA i : rows[i][key] = k)

\* Any value of a result that is an exception leaving the call
Raised(e) == [raised |-> e]
HasRaised(res) == "raised" \in DOMAIN res

\* ------------------------------------------------------------------------
\* DataRetriever: the normalized per-domain tables
\* ------------------------------------------------------------------------
\* Identifiers (Line_ID, SKU, Store_ID) are small integers.
LineIds == {1, 2}
ProducedValues == {0, 10, 100}
DefectValues == {0, 5, 10}
\* Timestamps in hours: two instants of one day and one of the next day
AggTimestamps == {30, 40, 50}

\* Per-row Defect_Rate: 0, overwritten where Quantity_Produced > 0
RowDefectRate(r) ==
    IF r.Quantity_Produced > 0
    THEN Div(r.Defects * 100, r.Quantity_Produced)
    ELSE Num(0)

\* get_manufacturing_data on raw rows whose documents hold the fields rawCols
get_manufacturing_data(rawCols, raw) ==
    IF raw = <<>> THEN EmptyFrame
    ELSE LET withRate == {"Quantity_Produced", "Defects"} \subseteq rawCols
             hasMachine == "Machine_ID" \in rawCols
             hasProduct == "Product" \in rawCols
             Norm(r) ==
                 LET r1 == IF hasMachine THEN SetCell(r, "Line_ID", r.Machine_ID)
                           ELSE r
                     r2 == IF hasProduct THEN SetCell(r1, "SKU", r.Product) ELSE r1
                     r3 == IF withRate
                           THEN SetCell(r2, "Defect_Rate", RowDefectRate(r))
                           ELSE r2
                 IN SetCell(r3, "domain", "Manufacturing")
         IN [cols |-> rawCols \cup {"domain"}
                        \cup (IF hasMachine THEN {"Line_ID"} ELSE {})
                        \cup (IF hasProduct THEN {"SKU"} ELSE {})
                        \cup (IF withRate THEN {"Defect_Rate"} ELSE {}),
             rows |-> [i \in 1..Len(raw) |-> Norm(raw[i])]]

\* The raw manufacturing documents: a row holds exactly the fields rawCols
ManufacturingRawCols ==
    { {"Quantity_Produced", "Defects"} \cup opt :
        opt \in SUBSET {"Machine_ID", "timestamp"} }

ManufacturingRawRow(rawCols) ==
    { [c \in rawCols |-> f[c]] :
        f \in [Quantity_Produced : ProducedValues, Defects : DefectValues,
               Machine_ID : LineIds, timestamp : AggTimestamps] }

SeqsUpTo(S, n) == UNION {[1..k -> S] : k \in 0..n}

\* ------------------------------------------------------------------------
\* AIEngine.analyze_quality
\* ------------------------------------------------------------------------
AnomalyThreshold == 5

\* The rate of a group of rows from its totals (a float division: a zero
\* total gives inf or NaN), with NaN replaced by 0
GroupRate(defects, produced) == FillNa0(Div(defects * 100, produced))

\* groupby(key).agg(sum) of Quantity_Produced and Defects, with the rate
QualityStats(rows, key) ==
    LET keys == GroupKeys(rows, key)
        Stat(k) ==
            LET g == GroupRows(rows, key, k)
                p == ColSum(g, "Quantity_Produced")
                d == ColSum(g, "Defects")
            IN (key :> k) @@
               [Quantity_Produced |-> p, Defects |-> d,
                Defect_Rate |-> GroupRate(d, p)]
    IN [i \in 1..Len(keys) |-> Stat(keys[i])]

\* The arithmetic mean of the per-row rates
AvgDefectRateOfRows(rows) ==
    DivR(ColSumR(rows, "Defect_Rate"), Num(Len(rows)))

\* total_defects / total_produced * 100 from the column totals, guarded
AvgDefectRate(rows) ==
    LET total_produced == ColSum(rows, "Quantity_Produced")
        total_defects == ColSum(rows, "Defects")
    IN IF total_produced > 0 THEN Div(total_defects * 100, total_produced)
       ELSE Num(0)

\* The lines at or above the threshold
AnomaliesAtOrAbove(line_stats) ==
    LET hit == SelectIdx(line_stats,
                   LAMBDA i : ~Lt(line_stats[i].Defect_Rate, Num(AnomalyThreshold)))
    IN [i \in 1..Len(hit) |-> hit[i].Line_ID]

\* line_stats[line_stats['Defect_Rate'] > 5]['Line_ID'].tolist()
Anomalies(line_stats) ==
    LET hit == SelectIdx(line_stats,
                   LAMBDA i : Gt(line_stats[i].Defect_Rate, Num(AnomalyThreshold)))
    IN [i \in 1..Len(hit) |-> hit[i].Line_ID]

\* The caller's table after analyze_quality: the function writes Defect_Rate
\* and Date into the DataFrame it was given
QualityFrameAfter(df) ==
    IF IsEmpty(df) THEN df
    ELSE LET hasBoth == {"Quantity_Produced", "Defects"} \subseteq df.cols
             hasTs == hasBoth /\ "timestamp" \in df.cols
             Upd(r) ==
                 LET r1 == SetCell(r, "Defect_Rate",
                                   IF hasBoth THEN RowDefectRate(r) ELSE Num(0))
                 IN IF hasTs THEN SetCell(r1, "Date", DateOf(r.timestamp)) ELSE r1
         IN [cols |-> df.cols \cup {"Defect_Rate"}
                        \cup (IF hasTs THEN {"Date"} ELSE {}),
             rows |-> [i \in 1..Len(df.rows) |-> Upd(df.rows[i])]]

\* The metrics analyze_quality returns
analyze_quality(df) ==
    IF IsEmpty(df) THEN
        [avg_defect_rate |-> Num(0), total_defects |-> 0, total_produced |-> 0,
         defect_trend |-> EmptyFrame, line_performance |-> EmptyFrame,
         anomalies |-> <<>>]
    ELSE IF ~({"Quantity_Produced", "Defects"} \subseteq df.cols) THEN
        Raised("KeyError")
    ELSE
        LET rows == QualityFrameAfter(df).rows
            total_produced == ColSum(rows, "Quantity_Produced")
            total_defects == ColSum(rows, "Defects")
            daily_stats == QualityStats(rows, "Date")
            line_stats == QualityStats(rows, "Line_ID")
        IN [avg_defect_rate |-> AvgDefectRate(rows),
            total_defects |-> total_defects,
            total_produced |-> total_produced,
            defect_trend |->
                IF "timestamp" \in df.cols
                THEN [cols |-> {"Date", "Quantity_Produced", "Defects", "Defect_Rate"},
                      rows |-> SortBy(daily_stats, LAMBDA a, b : a.Date < b.Date)]
                ELSE EmptyFrame,
            line_performance |->
                IF "Line_ID" \in df.cols
                THEN [cols |-> {"Line_ID", "Quantity_Produced", "Defects", "Defect_Rate"},
                      rows |-> SortBy(line_stats,
                                  LAMBDA a, b : Gt(a.Defect_Rate, b.Defect_Rate))]
                ELSE EmptyFrame,
            anomalies |->
                IF "Line_ID" \in df.cols THEN Anomalies(line_stats) ELSE <<>>]


\* ------------------------------------------------------------------------
\* AIEngine.analyze_inventory
\* ------------------------------------------------------------------------
StoreIds == {1, 2}
LevelValues == {50, 70, 100}
ConsumptionValues == {0, 10}
AlertValues == {0, 1}

\* get_field_data: Date is copied to timestamp, the domain tag is added
get_field_data(rawCols, raw) ==
    IF raw = <<>> THEN EmptyFrame
    ELSE LET Norm(r) ==
                 LET r1 == IF "Date" \in rawCols
                           THEN SetCell(r, "timestamp", r.Date) ELSE r
                 IN SetCell(r1, "domain", "Field")
         IN [cols |-> rawCols \cup {"domain"}
                        \cup (IF "Date" \in rawCols THEN {"timestamp"} ELSE {}),
             rows |-> [i \in 1..Len(raw) |-> Norm(raw[i])]]

FieldRawCols ==
    { {"Inventory_Level", "Daily_Consumption", "Low_Stock_Alerts"} \cup opt :
        opt \in SUBSET {"Store_ID", "Date"} }

FieldRawRow(rawCols) ==
    { [c \in rawCols |-> f[c]] :
        f \in [Inventory_Level : LevelValues, Daily_Consumption : ConsumptionValues,
               Low_Stock_Alerts : AlertValues, Store_ID : StoreIds,
               Date : {30, 50}] }

DepletionSentinel == 999
CriticalDays == 7

\* Series.replace([inf, -inf], 999)
ReplaceInf(x) == IF x = Inf THEN Num(DepletionSentinel) ELSE x

\* Per-row Days_to_Depletion: the column is set to 0, the rows with
\* Daily_Consumption > 0 get Inventory_Level / Daily_Consumption, and
\* infinities are then replaced by the sentinel
RowDaysToDepletion(r) ==
    ReplaceInf(IF r.Daily_Consumption > 0
               THEN Div(r.Inventory_Level, r.Daily_Consumption)
               ELSE Num(0))

\* The column lookups of analyze_inventory that no membership test guards
InventoryRaises(df) ==
    \/ ~({"Inventory_Level", "Low_Stock_Alerts"} \subseteq df.cols)
    \/ ("Store_ID" \in df.cols /\ "Daily_Consumption" \notin df.cols)

\* The caller's table after analyze_inventory
InventoryFrameAfter(df) ==
    IF IsEmpty(df) THEN df
    ELSE LET hasBoth == {"Inventory_Level", "Daily_Consumption"} \subseteq df.cols
             hasTs == ~InventoryRaises(df) /\ "timestamp" \in df.cols
             Upd(r) ==
                 LET r1 == SetCell(r, "Days_to_Depletion",
                               IF hasBoth THEN RowDaysToDepletion(r) ELSE Num(0))
                 IN IF hasTs THEN SetCell(r1, "Date", DateOf(r.timestamp)) ELSE r1
         IN [cols |-> df.cols \cup {"Days_to_Depletion"}
                        \cup (IF hasTs THEN {"Date"} ELSE {}),
             rows |-> [i \in 1..Len(df.rows) |-> Upd(df.rows[i])]]

\* field_df[field_df['Days_to_Depletion'] < 999]['Days_to_Depletion'].mean(),
\* with the NaN of an empty selection reported as 0
AvgDaysToDepletion(rows) ==
    LET sel == SelectIdx(rows,
                   LAMBDA i : Lt(rows[i].Days_to_Depletion, Num(DepletionSentinel)))
        days == [i \in 1..Len(sel) |-> sel[i].Days_to_Depletion]
    IN IF sel = <<>> THEN Num(0) ELSE DivR(SumR(days), Num(Len(sel)))

\* The rows under the critical threshold, projected, ascending by days
CriticalStores(rows) ==
    LET sel == SelectIdx(rows,
                   LAMBDA i : Lt(rows[i].Days_to_Depletion, Num(CriticalDays)))
        Proj(r) == [Store_ID |-> r.Store_ID,
                    Inventory_Level |-> r.Inventory_Level,
                    Daily_Consumption |-> r.Daily_Consumption,
                    Days_to_Depletion |-> r.Days_to_Depletion]
    IN SortBy([i \in 1..Len(sel) |-> Proj(sel[i])],
              LAMBDA a, b : Lt(a.Days_to_Depletion, b.Days_to_Depletion))

\* groupby('Date').agg(sum) of Inventory_Level and Low_Stock_Alerts
InventoryTrend(rows) ==
    LET keys == GroupKeys(rows, "Date")
        Stat(k) ==
            LET g == GroupRows(rows, "Date", k)
            IN [Date |-> k,
                Inventory_Level |-> ColSum(g, "Inventory_Level"),
                Low_Stock_Alerts |-> ColSum(g, "Low_Stock_Alerts")]
    IN SortBy([i \in 1..Len(keys) |-> Stat(keys[i])], LAMBDA a, b : a.Date < b.Date)

analyze_inventory(df) ==
    IF IsEmpty(df) THEN
        [total_inventory |-> 0, low_stock_alerts |-> 0,
         avg_days_to_depletion |-> Num(0),
         critical_stores |-> EmptyFrame, inventory_trend |-> EmptyFrame]
    ELSE IF InventoryRaises(df) THEN
        Raised("KeyError")
    ELSE
        LET rows == InventoryFrameAfter(df).rows
        IN [total_inventory |-> ColSum(rows, "Inventory_Level"),
            low_stock_alerts |-> ColSum(rows, "Low_Stock_Alerts"),
            avg_days_to_depletion |-> AvgDaysToDepletion(rows),
            critical_stores |->
                IF "Store_ID" \in df.cols
                THEN [cols |-> {"Store_ID", "Inventory_Level", "Daily_Consumption",
                                "Days_to_Depletion"},
                      rows |-> CriticalStores(rows)]
                ELSE EmptyFrame,
            inventory_trend |->
                IF "timestamp" \in df.cols
                THEN [cols |-> {"Date", "Inventory_Level", "Low_Stock_Alerts"},
                      rows |-> InventoryTrend(rows)]
                ELSE EmptyFrame]

\* ------------------------------------------------------------------------
\* AIEngine.analyze_sales
\* ------------------------------------------------------------------------
SkuIds == {1, 2}
RevenueValues == {0, 100, 250}
QuantityValues == {1, 2}

\* Revenue * 0.40
ProfitOf(revenue) == Div(revenue * 40, 100)

\* get_sales_data: Total_Amount is copied to Revenue, Profit is derived
get_sales_data(rawCols, raw) ==
    IF raw = <<>> THEN EmptyFrame
    ELSE LET hasAmount == "Total_Amount" \in rawCols
             Norm(r) ==
                 LET r1 == IF hasAmount
                           THEN SetCell(SetCell(r, "Revenue", r.Total_Amount),
                                        "Profit", ProfitOf(r.Total_Amount))
                           ELSE r
                 IN SetCell(r1, "domain", "Sales")
         IN [cols |-> rawCols \cup {"domain"}
                        \cup (IF hasAmount THEN {"Revenue", "Profit"} ELSE {}),
             rows |-> [i \in 1..Len(raw) |-> Norm(raw[i])]]

SalesRawCols ==
    { {"Total_Amount", "Quantity"} \cup opt : opt \in SUBSET {"SKU", "timestamp"} }

SalesRawRow(rawCols) ==
    { [c \in rawCols |-> f[c]] :
        f \in [Total_Amount : RevenueValues, Quantity : QuantityValues,
               SKU : SkuIds, timestamp : AggTimestamps] }

TopProducts == 10

\* DataFrame.head(n)
HeadN(s, n) == IF Len(s) <= n THEN s ELSE SubSeq(s, 1, n)

\* The quotient without its guard
ProfitMarginUnguarded(total_profit, total_revenue) ==
    Times(DivR(total_profit, Num(total_revenue)), 100)

\* total_profit / total_revenue * 100, guarded
ProfitMargin(total_profit, total_revenue) ==
    IF total_revenue > 0
    THEN Times(DivR(total_profit, Num(total_revenue)), 100)
    ELSE Num(0)

\* The column lookups of analyze_sales that no membership test guards
SalesRaises(df) == "SKU" \in df.cols /\ "Quantity" \notin df.cols

\* The caller's table after analyze_sales: Profit is rewritten, Date added
SalesFrameAfter(df) ==
    IF IsEmpty(df) \/ "Revenue" \notin df.cols THEN df
    ELSE LET hasTs == "timestamp" \in df.cols
             Upd(r) ==
                 LET r1 == SetCell(r, "Profit", ProfitOf(r.Revenue))
                 IN IF hasTs THEN SetCell(r1, "Date", DateOf(r.timestamp)) ELSE r1
         IN [cols |-> df.cols \cup {"Profit"} \cup (IF hasTs THEN {"Date"} ELSE {}),
             rows |-> [i \in 1..Len(df.rows) |-> Upd(df.rows[i])]]

\* A trend in which a day's row holds the values of the day's last input row
RevenueTrendLastWins(rows) ==
    LET keys == GroupKeys(rows, "Date")
        Stat(k) ==
            LET g == GroupRows(rows, "Date", k)
            IN [Date |-> k, Revenue |-> g[Len(g)].Revenue, Profit |-> g[Len(g)].Profit]
    IN SortBy([i \in 1..Len(keys) |-> Stat(keys[i])], LAMBDA a, b : a.Date < b.Date)

\* groupby('Date').agg(sum) of Revenue and Profit, sorted by Date
RevenueTrend(rows) ==
    LET keys == GroupKeys(rows, "Date")
        Stat(k) ==
            LET g == GroupRows(rows, "Date", k)
            IN [Date |-> k, Revenue |-> ColSum(g, "Revenue"),
                Profit |-> ColSumR(g, "Profit")]
    IN SortBy([i \in 1..Len(keys) |-> Stat(keys[i])], LAMBDA a, b : a.Date < b.Date)

TopProductsOf(rows) ==
    LET keys == GroupKeys(rows, "SKU")
        Stat(k) ==
            LET g == GroupRows(rows, "SKU", k)
            IN [SKU |-> k, Revenue |-> ColSum(g, "Revenue"),
                Quantity |-> ColSum(g, "Quantity"),
                Profit |-> ColSumR(g, "Profit")]
    IN HeadN(SortBy([i \in 1..Len(keys) |-> Stat(keys[i])],
                    LAMBDA a, b : a.Revenue > b.Revenue),
             TopProducts)

analyze_sales(df) ==
    IF IsEmpty(df) \/ "Revenue" \notin df.cols THEN
        [total_revenue |-> 0, total_profit |-> Num(0), profit_margin |-> Num(0),
         revenue_trend |-> EmptyFrame, top_products |-> EmptyFrame]
    ELSE IF SalesRaises(df) THEN
        Raised("KeyError")
    ELSE
        LET rows == SalesFrameAfter(df).rows
            total_revenue == ColSum(rows, "Revenue")
            total_profit == ColSumR(rows, "Profit")
        IN [total_revenue |-> total_revenue,
            total_profit |-> total_profit,
            profit_margin |-> ProfitMargin(total_profit, total_revenue),
            revenue_trend |->
                IF "timestamp" \in df.cols
                THEN [cols |-> {"Date", "Revenue", "Profit"},
                      rows |-> RevenueTrend(rows)]
                ELSE EmptyFrame,
            top_products |->
                IF "SKU" \in df.cols
                THEN [cols |-> {"SKU", "Revenue", "Quantity", "Profit"},
                      rows |-> TopProductsOf(rows)]
                ELSE EmptyFrame]

\* ------------------------------------------------------------------------
\* AIEngine.analyze_testing
\* ------------------------------------------------------------------------
\* A missing Pass_Fail_Status cell
NoStatus == "<NA>"
StatusValues == {"Passed", "Failed", "FAILED", "failed", NoStatus}

\* A comparison that respects case
LowerCaseSensitive(str) == str

\* Series.str.lower(): a missing cell stays missing
Lower(str) ==
    CASE str \in {"Failed", "FAILED", "failed"} -> "failed"
      [] str \in {"Passed", "PASSED", "passed"} -> "passed"
      [] str = "Last Month" -> "last month"
      [] str = "Sales" -> "sales"
      [] str = "Inventory" -> "inventory"
      [] OTHER -> str

\* get_testing_data: Passed/Failed is copied to Pass_Fail_Status
get_testing_data(rawCols, raw) ==
    IF raw = <<>> THEN EmptyFrame
    ELSE LET hasStatus == "Passed/Failed" \in rawCols
             Norm(r) ==
                 LET r1 == IF hasStatus
                           THEN SetCell(r, "Pass_Fail_Status", r["Passed/Failed"])
                           ELSE r
                 IN SetCell(r1, "domain", "Testing")
         IN [cols |-> rawCols \cup {"domain"}
                        \cup (IF hasStatus THEN {"Pass_Fail_Status"} ELSE {}),
             rows |-> [i \in 1..Len(raw) |-> Norm(raw[i])]]

TestingRawRow == { [c \in {"Passed/Failed"} |-> st] : st \in StatusValues }

\* (testing_df['Pass_Fail_Status'].str.lower() == 'failed').sum()
FailedTests(rows) ==
    Len(SelectIdx(rows, LAMBDA i : Lower(rows[i].Pass_Fail_Status) = "failed"))

\* (total_tests - failed_tests) / total_tests * 100, guarded
PassRate(total_tests, failed_tests) ==
    IF total_tests > 0
    THEN Div((total_tests - failed_tests) * 100, total_tests)
    ELSE Num(0)

analyze_testing(df) ==
    IF IsEmpty(df) THEN
        [total_tests |-> 0, pass_rate |-> Num(0), failed_tests |-> 0]
    ELSE
        LET total_tests == Len(df.rows)
            hasStatus == "Pass_Fail_Status" \in df.cols
            failed_tests == IF hasStatus THEN FailedTests(df.rows) ELSE 0
        IN [total_tests |-> total_tests,
            pass_rate |-> IF hasStatus THEN PassRate(total_tests, failed_tests)
                          ELSE Num(0),
            failed_tests |-> failed_tests]

\* ------------------------------------------------------------------------
\* DataRetriever.fetch_all_data: the unified table
\* ------------------------------------------------------------------------
\* The cell pd.concat puts where a table lacks a column
MissingCell(c) ==
    CASE c \in {"Profit", "Defect_Rate"} -> NaN
      [] c \in {"Pass_Fail_Status", "Passed/Failed", "domain"} -> NoStatus
      [] OTHER -> NaT

\* pd.concat(all_dfs, ignore_index=True, sort=False)
Concat(dfs) ==
    LET cols == UNION {dfs[k].cols : k \in 1..Len(dfs)}
        Widen(r) == [c \in cols |-> IF c \in DOMAIN r THEN r[c] ELSE MissingCell(c)]
        Rows[k \in 0..Len(dfs)] ==
            IF k = 0 THEN <<>>
            ELSE Rows[k - 1] \o [i \in 1..Len(dfs[k].rows) |-> Widen(dfs[k].rows[i])]
    IN [cols |-> cols, rows |-> Rows[Len(dfs)]]

fetch_all_data(sales_df, manufacturing_df, testing_df, field_df) ==
    LET all_dfs == SelectSeq(<<sales_df, manufacturing_df, testing_df, field_df>>,
                             LAMBDA d : ~IsEmpty(d))
    IN IF all_dfs = <<>> THEN EmptyFrame ELSE Concat(all_dfs)

\* ------------------------------------------------------------------------
\* AIEngine._apply_filters
\* ------------------------------------------------------------------------
\* A filter spec is None or a dict: a function from the keys it holds to
\* None or to [val |-> v].
Val(v) == [val |-> v]

\* A new DataFrame object
Alloc(h, df) == [heap |-> Append(h, df), ref |-> Len(h) + 1, raised |-> ""]

\* No new object: the name is bound to the object itself
AliasFrame(h, id) == [heap |-> h, ref |-> id, raised |-> ""]

\* df.copy()
CopyFrame(h, id) == Alloc(h, h[id])

\* An exception leaves the call
Raise(st, e) == [st EXCEPT !.raised = e]

\* filtered_df = filtered_df[mask]: a new object holding the rows of the
\* current one whose mask cell is true
BoolIndex(st, mask) ==
    LET df == st.heap[st.ref]
    IN Alloc(st.heap, [cols |-> df.cols,
                       rows |-> SelectIdx(df.rows, LAMBDA i : mask[i])])

FrameOf(st) == st.heap[st.ref]

\* 'phrase' in text, for the texts of the model
Contains(text, phrase) ==
    \/ text = phrase
    \/ <<text, phrase>> \in {<<"over the past year", "past year">>,
                              <<"today so far", "today">>,
                              <<"sales_revenue", "sales">>,
                              <<"sales_revenue", "revenue">>,
                              <<"manufacturing_quality", "manufacturing">>,
                              <<"manufacturing_quality", "quality">>,
                              <<"testing", "test">>,
                              <<"field_inventory", "field">>,
                              <<"field_inventory", "inventory">>,
                              <<"line_chart", "line">>,
                              <<"bar_chart", "bar">>,
                              <<"area_chart", "area">>,
                              <<"pie_chart", "pie">>}

\* timedelta(days = d), in hours
Days(d) == d * 24

\* The lower bound of the window a lower-cased time_range names: 0 when it
\* names today, NaT when it names no window
WindowDays(time_filter) ==
    IF Contains(time_filter, "last month") \/ Contains(time_filter, "past month")
    THEN 30
    ELSE IF Contains(time_filter, "last week") \/ Contains(time_filter, "past week")
    THEN 7
    ELSE IF Contains(time_filter, "last year") \/ Contains(time_filter, "past year")
    THEN 365
    ELSE IF Contains(time_filter, "today") THEN 0
    ELSE NaT

\* The mask of a window that opens just after now - window
TimeMaskStrict(rows, window, clock) ==
    [i \in 1..Len(rows) |->
        /\ rows[i].timestamp # NaT
        /\ IF window = 0 THEN DateOf(rows[i].timestamp) = DateOf(clock)
           ELSE rows[i].timestamp > clock - Days(window)]

\* The mask of the time filter: timestamp >= now - window, or, for today,
\* the date of the timestamp = the date of now; NaT compares false
TimeMask(rows, window, clock) ==
    [i \in 1..Len(rows) |->
        /\ rows[i].timestamp # NaT
        /\ IF window = 0 THEN DateOf(rows[i].timestamp) = DateOf(clock)
           ELSE rows[i].timestamp >= clock - Days(window)]

\* The window also leaves out the newest rows of the table
TimeStepBeforeNewest(st, f, clock) ==
    IF "time_range" \in DOMAIN f /\ "timestamp" \in FrameOf(st).cols
    THEN IF f.time_range = None THEN Raise(st, "AttributeError")
         ELSE LET window == WindowDays(Lower(f.time_range.val))
                  rows == FrameOf(st).rows
                  newest == CHOOSE t \in {rows[i].timestamp : i \in 1..Len(rows)} :
                               \A i \in 1..Len(rows) : rows[i].timestamp <= t
              IN IF window = NaT THEN st
                 ELSE BoolIndex(st,
                        [i \in 1..Len(rows) |->
                            /\ TimeMask(rows, window, clock)[i]
                            /\ rows[i].timestamp < newest])
    ELSE st

\* if 'time_range' in filters and 'timestamp' in filtered_df.columns
TimeStep(st, f, clock) ==
    IF "time_range" \in DOMAIN f /\ "timestamp" \in FrameOf(st).cols
    THEN IF f.time_range = None THEN Raise(st, "AttributeError")
         ELSE LET window == WindowDays(Lower(f.time_range.val))
              IN IF window = NaT THEN st
                 ELSE BoolIndex(st, TimeMask(FrameOf(st).rows, window, clock))
    ELSE st

\* domain_map.get(filters['domain'].lower(), filters['domain'])
DomainValue(name) ==
    CASE Lower(name) = "sales" -> "Sales"
      [] Lower(name) = "manufacturing" -> "Manufacturing"
      [] Lower(name) = "testing" -> "Testing"
      [] Lower(name) = "field" -> "Field"
      [] Lower(name) = "inventory" -> "Field"
      [] OTHER -> name

\* if 'domain' in filters and 'domain' in filtered_df.columns
DomainStep(st, f) ==
    IF st.raised # "" THEN st
    ELSE IF "domain" \in DOMAIN f /\ "domain" \in FrameOf(st).cols
    THEN IF f.domain = None THEN Raise(st, "AttributeError")
         ELSE LET rows == FrameOf(st).rows
              IN BoolIndex(st, [i \in 1..Len(rows) |->
                                   rows[i].domain = DomainValue(f.domain.val)])
    ELSE st

\* if key in filters and col in filtered_df.columns:
\*     filtered_df = filtered_df[filtered_df[col] == filters[key]]
\* A comparison with None, and the comparison of a missing cell, are false.
IdStep(st, f, key, col) ==
    IF st.raised # "" THEN st
    ELSE IF key \in DOMAIN f /\ col \in FrameOf(st).cols
    THEN LET rows == FrameOf(st).rows
         IN BoolIndex(st, [i \in 1..Len(rows) |->
                              /\ f[key] # None
                              /\ rows[i][col] # NaT
                              /\ rows[i][col] = f[key].val])
    ELSE st

\* The call: the heap after it, the object returned, the exception raised
apply_filters(h, id, f, clock) ==
    LET copied == CopyFrame(h, id)
    IN IF f = None \/ IsEmpty(h[id]) THEN copied
       ELSE IdStep(IdStep(IdStep(DomainStep(TimeStep(copied, f, clock), f),
                                 f, "sku", "SKU"),
                          f, "line_id", "Line_ID"),
                   f, "store_id", "Store_ID")

\* ------------------------------------------------------------------------
\* The aggregators as a state machine: a page fetches the table of its
\* domain and hands it to the aggregator of that domain
\* ------------------------------------------------------------------------
NoResult == [none |-> TRUE]

\* st.session_state of the AI Assistant page before any action: no table,
\* no message
FreshSession == [chat_history |-> <<>>, chat_full_df |-> None, data_loaded |-> FALSE]

Now == 10000

InitManufacturing ==
    \E rawCols \in ManufacturingRawCols :
        \E raw \in SeqsUpTo(ManufacturingRawRow(rawCols), MaxRows) :
            /\ heap = <<get_manufacturing_data(rawCols, raw)>>
            /\ pc = "manufacturing"

InitField ==
    \E rawCols \in FieldRawCols :
        \E raw \in SeqsUpTo(FieldRawRow(rawCols), MaxRows) :
            /\ heap = <<get_field_data(rawCols, raw)>>
            /\ pc = "field"

InitSales ==
    \E rawCols \in SalesRawCols :
        \E raw \in SeqsUpTo(SalesRawRow(rawCols), MaxRows) :
            /\ heap = <<get_sales_data(rawCols, raw)>>
            /\ pc = "sales"

\* A sales table with one more SKU than top_products keeps: one row per SKU,
\* the rows of the later day first
CatalogueSkus == 1..(TopProducts + 1)

InitCatalogue ==
    \E amount \in [CatalogueSkus -> {100, 250}] :
        /\ heap = <<get_sales_data({"Total_Amount", "Quantity", "SKU", "timestamp"},
                        [i \in CatalogueSkus |->
                            [Total_Amount |-> amount[i], Quantity |-> 1, SKU |-> i,
                             timestamp |-> IF i % 2 = 1 THEN 50 ELSE 30]])>>
        /\ pc = "sales"

InitTesting ==
    \E raw \in SeqsUpTo(TestingRawRow, MaxTestRows) :
        /\ heap = <<get_testing_data({"Passed/Failed"}, raw)>>
        /\ pc = "testing"

Init ==
    /\ InitManufacturing \/ InitField \/ InitSales \/ InitCatalogue \/ InitTesting
    /\ arg = 1
    /\ given = heap[arg]
    /\ filters = None
    /\ result = NoResult
    /\ prev = NoResult
    /\ now = Now
    /\ intent = None
    /\ api_key = None
    /\ session = FreshSession

AnalyzeQuality ==
    /\ pc = "manufacturing"
    /\ heap' = [heap EXCEPT ![arg] = QualityFrameAfter(heap[arg])]
    /\ result' = analyze_quality(heap[arg])
    /\ pc' = "quality_done"
    /\ UNCHANGED <<arg, given, filters, now, prev, intent, api_key, session>>

AnalyzeInventory ==
    /\ pc = "field"
    /\ heap' = [heap EXCEPT ![arg] = InventoryFrameAfter(heap[arg])]
    /\ result' = analyze_inventory(heap[arg])
    /\ pc' = "inventory_done"
    /\ UNCHANGED <<arg, given, filters, now, prev, intent, api_key, session>>

AnalyzeSales ==
    /\ pc = "sales"
    /\ heap' = [heap EXCEPT ![arg] = SalesFrameAfter(heap[arg])]
    /\ result' = analyze_sales(heap[arg])
    /\ pc' = "sales_done"
    /\ UNCHANGED <<arg, given, filters, now, prev, intent, api_key, session>>

AnalyzeTesting ==
    /\ pc = "testing"
    /\ result' = analyze_testing(heap[arg])
    /\ pc' = "testing_done"
    /\ UNCHANGED <<heap, arg, given, filters, now, prev, intent, api_key, session>>

Next ==
    \/ AnalyzeQuality
    \/ AnalyzeInventory
    \/ AnalyzeSales
    \/ AnalyzeTesting

Spec == Init /\ [][Next]_vars


\* ------------------------------------------------------------------------
\* Properties of the aggregators
\* ------------------------------------------------------------------------
\* The rows of the table the aggregator was given.  The aggregators add
\* columns to that table but change no cell of a column they read.
InRows == heap[arg].rows

\* Sum of column c over the rows that satisfy P
SumWhere(c, P(_)) ==
    LET idx == {i \in 1..Len(InRows) : P(InRows[i])}
        S[I \in SUBSET idx] ==
            IF I = {} THEN 0
            ELSE LET i == CHOOSE j \in I : TRUE IN InRows[i][c] + S[I \ {i}]
    IN S[idx]

TotalOf(c) == SumWhere(c, LAMBDA r : TRUE)

\* x = n / d * 100 for a fraction x and integers n, d with d > 0
IsPercentOf(x, n, d) == x.den > 0 /\ x.num * d = 100 * n * x.den

\* C1: for every non-empty manufacturing table analyze_quality returns
\* avg_defect_rate = (sum of Defects) / (sum of Quantity_Produced) * 100,
\* from the totals over all rows; the rows (produced 100, defects 10) and
\* (produced 10, defects 10) give 20/110*100 = 200/11, not 55.
C1_WeightedAvgDefectRate ==
    (pc = "quality_done" /\ InRows # <<>> /\ TotalOf("Quantity_Produced") > 0) =>
        /\ IsPercentOf(result.avg_defect_rate,
                       TotalOf("Defects"), TotalOf("Quantity_Produced"))
        /\ (/\ Len(InRows) = 2
            /\ \E i, j \in 1..2 :
                 /\ i # j
                 /\ InRows[i].Quantity_Produced = 100 /\ InRows[i].Defects = 10
                 /\ InRows[j].Quantity_Produced = 10 /\ InRows[j].Defects = 10)
           => result.avg_defect_rate = [num |-> 200, den |-> 11]

C1_Witness ==
    /\ pc = "quality_done"
    /\ Len(InRows) = 2
    /\ InRows[1].Quantity_Produced = 100 /\ InRows[1].Defects = 10
    /\ InRows[2].Quantity_Produced = 10 /\ InRows[2].Defects = 10
    /\ result.avg_defect_rate = [num |-> 200, den |-> 11]

\* C4: a Line_ID is listed in anomalies if and only if the rate of its
\* totals, sum of Defects / sum of Quantity_Produced * 100 over the rows of
\* the line, is strictly greater than 5 (100 * defects > 5 * produced); a
\* line at exactly 5% is not listed.
C4_AnomalyIffAboveThreshold ==
    (pc = "quality_done" /\ InRows # <<>>) =>
        IF "Line_ID" \in heap[arg].cols
        THEN \A l \in LineIds :
                (l \in Range(result.anomalies)) <=>
                    /\ \E i \in 1..Len(InRows) : InRows[i].Line_ID = l
                    /\ 100 * SumWhere("Defects", LAMBDA r : r.Line_ID = l)
                         > AnomalyThreshold
                             * SumWhere("Quantity_Produced", LAMBDA r : r.Line_ID = l)
        ELSE result.anomalies = <<>>

C4_Witness ==
    /\ pc = "quality_done"
    /\ "Line_ID" \in heap[arg].cols
    /\ Len(InRows) = 2
    /\ InRows[1].Line_ID = 1 /\ InRows[1].Quantity_Produced = 100
    /\ InRows[1].Defects = 5
    /\ InRows[2].Line_ID = 2 /\ InRows[2].Quantity_Produced = 100
    /\ InRows[2].Defects = 10
    /\ result.anomalies = <<2>>

\* The number of rows whose status is "failed" in any letter case
FailedCount ==
    Cardinality({i \in 1..Len(InRows) :
                   InRows[i].Pass_Fail_Status \in {"Failed", "FAILED", "failed"}})

\* C5: for every non-empty table the aggregated percentages equal their
\* formula when the denominator is positive and are exactly 0 when it is 0,
\* are never NaN, and the call does not raise: profit_margin (denominator
\* total revenue), avg_defect_rate (total produced), pass_rate (total tests).
C5_GuardedPercentages ==
    /\ (pc = "sales_done" /\ InRows # <<>>) =>
          /\ ~HasRaised(result)
          /\ IF TotalOf("Revenue") > 0
             THEN /\ result.profit_margin.den > 0
                  /\ result.total_profit.den > 0
                  /\ result.profit_margin.num * result.total_profit.den
                         * TotalOf("Revenue")
                       = 100 * result.total_profit.num * result.profit_margin.den
             ELSE result.profit_margin = Num(0)
    /\ (pc = "quality_done" /\ InRows # <<>>) =>
          /\ ~HasRaised(result)
          /\ IF TotalOf("Quantity_Produced") > 0
             THEN IsPercentOf(result.avg_defect_rate,
                              TotalOf("Defects"), TotalOf("Quantity_Produced"))
             ELSE result.avg_defect_rate = Num(0)
    /\ (pc = "testing_done" /\ InRows # <<>>) =>
          /\ ~HasRaised(result)
          /\ IsPercentOf(result.pass_rate, Len(InRows) - FailedCount, Len(InRows))

C5_Witness ==
    /\ pc = "sales_done"
    /\ Len(InRows) = 2
    /\ TotalOf("Revenue") = 0
    /\ result.profit_margin = Num(0)

\* C6: each of the four aggregators, given an empty table, returns zeroed
\* scalar metrics with empty trend, ranking and anomaly containers and does
\* not raise.
C6_EmptyTableZeroMetrics ==
    InRows = <<>> =>
        /\ pc = "quality_done" =>
              result = [avg_defect_rate |-> Num(0), total_defects |-> 0,
                        total_produced |-> 0,
                        defect_trend |-> [cols |-> {}, rows |-> <<>>],
                        line_performance |-> [cols |-> {}, rows |-> <<>>],
                        anomalies |-> <<>>]
        /\ pc = "sales_done" =>
              result = [total_revenue |-> 0, total_profit |-> Num(0),
                        profit_margin |-> Num(0),
                        revenue_trend |-> [cols |-> {}, rows |-> <<>>],
                        top_products |-> [cols |-> {}, rows |-> <<>>]]
        /\ pc = "inventory_done" =>
              result = [total_inventory |-> 0, low_stock_alerts |-> 0,
                        avg_days_to_depletion |-> Num(0),
                        critical_stores |-> [cols |-> {}, rows |-> <<>>],
                        inventory_trend |-> [cols |-> {}, rows |-> <<>>]]
        /\ pc = "testing_done" =>
              result = [total_tests |-> 0, pass_rate |-> Num(0),
                        failed_tests |-> 0]

C6_Witness ==
    /\ pc = "quality_done"
    /\ InRows = <<>>
    /\ result.anomalies = <<>>
    /\ result.total_produced = 0

\* C7: analyze_testing returns total_tests = the number of rows,
\* failed_tests = the number of rows whose status equals "failed" ignoring
\* case, and pass_rate = (total_tests - failed_tests) / total_tests * 100,
\* 0 when there is no row.
C7_TestingCounts ==
    pc = "testing_done" =>
        /\ ~HasRaised(result)
        /\ result.total_tests = Len(InRows)
        /\ result.failed_tests = FailedCount
        /\ IF Len(InRows) > 0
           THEN IsPercentOf(result.pass_rate,
                            Len(InRows) - FailedCount, Len(InRows))
           ELSE result.pass_rate = Num(0)

C7_Witness ==
    /\ pc = "testing_done"
    /\ Len(InRows) = 4
    /\ InRows[1].Pass_Fail_Status = "FAILED"
    /\ \A i \in 2..4 : InRows[i].Pass_Fail_Status = "Passed"
    /\ result.failed_tests = 1
    /\ result.pass_rate = Num(75)

\* The days to depletion of the rows that consume: Inventory_Level /
\* Daily_Consumption of each row with Daily_Consumption > 0
ConsumingDays ==
    LET sel == SelectIdx(InRows, LAMBDA i : InRows[i].Daily_Consumption > 0)
    IN [i \in 1..Len(sel) |-> Div(sel[i].Inventory_Level, sel[i].Daily_Consumption)]

\* C2: every field record with Daily_Consumption = 0 gets Days_to_Depletion
\* = 999, and every such record is excluded from the mean that gives
\* avg_days_to_depletion, which is 0 when no record qualifies.
C2_ZeroConsumptionSentinel ==
    (pc = "inventory_done" /\ InRows # <<>>) =>
        /\ \A i \in 1..Len(InRows) :
              InRows[i].Daily_Consumption = 0 =>
                  InRows[i].Days_to_Depletion = Num(DepletionSentinel)
        /\ result.avg_days_to_depletion =
              IF ConsumingDays = <<>> THEN Num(0)
              ELSE DivR(SumR(ConsumingDays), Num(Len(ConsumingDays)))

\* C3: critical_stores holds exactly the records whose projected depletion
\* is under 7 days, ascending by days remaining; a record with
\* Daily_Consumption = 0 never appears in it.
C3_CriticalStoresUnderSevenDays ==
    (pc = "inventory_done" /\ "Store_ID" \in heap[arg].cols) =>
        LET crit == result.critical_stores.rows
            Projected(r) ==
                [Store_ID |-> r.Store_ID, Inventory_Level |-> r.Inventory_Level,
                 Daily_Consumption |-> r.Daily_Consumption,
                 Days_to_Depletion |-> Div(r.Inventory_Level, r.Daily_Consumption)]
            Under(r) ==
                /\ r.Daily_Consumption > 0
                /\ r.Inventory_Level < CriticalDays * r.Daily_Consumption
        IN /\ \A k \in 1..Len(crit) : crit[k].Daily_Consumption > 0
           /\ Len(crit) = Cardinality({i \in 1..Len(InRows) : Under(InRows[i])})
           /\ \A i \in 1..Len(InRows) :
                 Under(InRows[i]) => Projected(InRows[i]) \in Range(crit)
           /\ \A k \in 1..(Len(crit) - 1) :
                 ~Lt(crit[k + 1].Days_to_Depletion, crit[k].Days_to_Depletion)

\* ------------------------------------------------------------------------
\* The filter engine as a state machine: the unified table is fetched, an
\* intent's filter spec is applied to it, and applied again to the result
\* ------------------------------------------------------------------------
\* The documents of the four collections; a fetch returns, per collection,
\* a subsequence of them.  Their timestamps lie, counted back from Now, in
\* the same day, the same week, exactly seven days back, the same month, the
\* same year and beyond.
SalesDocs ==
    <<[Total_Amount |-> 100, Quantity |-> 1, SKU |-> 1, timestamp |-> Now - 1],
      [Total_Amount |-> 250, Quantity |-> 2, SKU |-> 2, timestamp |-> Now - 500]>>

ManufacturingDocs ==
    <<[Quantity_Produced |-> 100, Defects |-> 5, Machine_ID |-> 1, Product |-> 1,
       timestamp |-> Now - 100],
      [Quantity_Produced |-> 10, Defects |-> 10, Machine_ID |-> 2, Product |-> 2,
       timestamp |-> Now - 9000]>>

TestingDocs ==
    <<("Passed/Failed" :> "Failed") @@ [timestamp |-> Now - Days(7)],
      ("Passed/Failed" :> "Passed") @@ [timestamp |-> Now - 2]>>

FieldDocs ==
    <<[Store_ID |-> 1, Inventory_Level |-> 50, Daily_Consumption |-> 10,
       Low_Stock_Alerts |-> 0, Date |-> Now - 1000]>>

Subsequences(s) == {SelectIdx(s, LAMBDA i : i \in I) : I \in SUBSET (1..Len(s))}

DocCols(docs) == DOMAIN docs[1]

\* The unified tables fetch_all_data can return
UnifiedTables ==
    { fetch_all_data(get_sales_data(DocCols(SalesDocs), s),
                     get_manufacturing_data(DocCols(ManufacturingDocs), m),
                     get_testing_data(DocCols(TestingDocs), t),
                     get_field_data(DocCols(FieldDocs), f)) :
        s \in Subsequences(SalesDocs), m \in Subsequences(ManufacturingDocs),
        t \in Subsequences(TestingDocs), f \in Subsequences(FieldDocs) }

\* The filter specs of an intent: None, or a dict holding some of the keys,
\* each with null or a value
FilterValues ==
    [time_range |-> {None} \cup {Val(v) : v \in
                        {"last week", "Last Month", "over the past year",
                         "today", "all", "yesterday"}},
     domain |-> {None} \cup {Val(v) : v \in {"Sales", "Inventory", "quality"}},
     sku |-> {None, Val(1)},
     line_id |-> {None, Val(1)},
     store_id |-> {None, Val(1)}]

\* A key the dict does not hold
Absent == [absent |-> TRUE]

FilterSpecs ==
    {None} \cup
    { [k \in {j \in DOMAIN o : o[j] # Absent} |-> o[k]] :
        o \in [time_range : {Absent} \cup FilterValues.time_range,
               domain : {Absent} \cup FilterValues.domain,
               sku : {Absent} \cup FilterValues.sku,
               line_id : {Absent} \cup FilterValues.line_id,
               store_id : {Absent} \cup FilterValues.store_id] }

InitFilter ==
    /\ \E t \in UnifiedTables : heap = <<t>>
    /\ arg = 1
    /\ given = heap[arg]
    /\ filters \in FilterSpecs
    /\ now = Now
    /\ result = NoResult
    /\ prev = NoResult
    /\ intent = None
    /\ api_key = None
    /\ session = FreshSession
    /\ pc = "chat"

\* filtered_df = self._apply_filters(full_df, filters)
ApplyFilters ==
    /\ pc = "chat"
    /\ LET r == apply_filters(heap, arg, filters, now)
       IN /\ heap' = r.heap
          /\ result' = [ref |-> r.ref, raised |-> r.raised]
    /\ prev' = result
    /\ pc' = "filtered"
    /\ UNCHANGED <<arg, given, filters, now, intent, api_key, session>>

\* The same filter spec applied to the table the first call returned
ApplyFiltersAgain ==
    /\ pc = "filtered"
    /\ result.raised = ""
    /\ LET r == apply_filters(heap, result.ref, filters, now)
       IN /\ heap' = r.heap
          /\ result' = [ref |-> r.ref, raised |-> r.raised]
    /\ prev' = result
    /\ pc' = "refiltered"
    /\ UNCHANGED <<arg, given, filters, now, intent, api_key, session>>

NextFilter ==
    \/ ApplyFilters
    \/ ApplyFiltersAgain

SpecFilter == InitFilter /\ [][NextFilter]_vars

\* ------------------------------------------------------------------------
\* Properties of the filter engine
\* ------------------------------------------------------------------------
\* The table a call returned
Returned(res) == heap[res.ref]

\* The filter spec without the keys whose value is null
WithoutNulls(f) ==
    IF f = None THEN None
    ELSE [k \in {j \in DOMAIN f : f[j] # None} |-> f[k]]

\* C8: a filter field that is absent or null is a no-op: it removes no row
\* and raises no error, so the call returns what it returns for the spec
\* without its null fields, and all rows when every field is absent or null.
C8_NullFieldsAreNoOps ==
    pc = "filtered" =>
        LET r == apply_filters(<<given>>, 1, WithoutNulls(filters), now)
        IN /\ result.raised = r.raised
           /\ result.raised = "" => Returned(result) = r.heap[r.ref]
           /\ (filters # None /\ \A k \in DOMAIN filters : filters[k] = None)
                 => (result.raised = "" /\ Returned(result) = given)

\* C9: _apply_filters never changes the table it is given, and the table it
\* returns is another object.
C9_InputTableUnchanged ==
    pc = "filtered" =>
        /\ heap[arg] = given
        /\ result.raised = "" => result.ref # arg

C9_Witness ==
    /\ pc = "filtered"
    /\ result.raised = ""
    /\ heap[arg] = given
    /\ Returned(result).rows # <<>>
    /\ Len(Returned(result).rows) < Len(given.rows)

\* C10: applying the same filter spec, at the same now, to the result of
\* _apply_filters returns a table equal to that result.
C10_FilterIdempotent ==
    pc = "refiltered" =>
        /\ result.raised = ""
        /\ Returned(result) = Returned(prev)

C10_Witness ==
    /\ pc = "refiltered"
    /\ filters # None
    /\ {"time_range", "sku"} \subseteq DOMAIN filters
    /\ Returned(result) = Returned(prev)
    /\ Returned(result).rows # <<>>
    /\ Len(Returned(result).rows) < Len(given.rows)

\* The filter spec without the key k
WithoutKey(f, k) == [j \in (DOMAIN f) \ {k} |-> f[j]]

\* C11: a time_range text that names none of the windows last week, last
\* month, last year, today removes no row; a text that names one keeps, of
\* the rows the other filters keep, exactly those whose timestamp is at or
\* after now minus 7, 30 or 365 days, or whose date is the date of now.
C11_TimeRangeWindows ==
    (/\ pc = "filtered"
     /\ filters # None
     /\ "time_range" \in DOMAIN filters
     /\ filters.time_range # None) =>
        LET text == filters.time_range.val
            rest == apply_filters(<<given>>, 1, WithoutKey(filters, "time_range"), now)
            base == rest.heap[rest.ref]
            Since(r, d) == r.timestamp # NaT /\ r.timestamp >= now - d * 24
            Kept(r) ==
                CASE text = "last week" -> Since(r, 7)
                  [] text = "Last Month" -> Since(r, 30)
                  [] text = "over the past year" -> Since(r, 365)
                  [] text = "today" ->
                        /\ r.timestamp # NaT
                        /\ r.timestamp \div 24 = now \div 24
                  [] OTHER -> TRUE
        IN /\ result.raised = rest.raised
           /\ result.raised = "" =>
                 /\ Returned(result).cols = base.cols
                 /\ Returned(result).rows =
                        SelectIdx(base.rows, LAMBDA i : Kept(base.rows[i]))

C11_Witness ==
    /\ pc = "filtered"
    /\ filters # None
    /\ DOMAIN filters = {"time_range"}
    /\ filters.time_range = Val("last week")
    /\ result.raised = ""
    /\ Len(given.rows) = 7
    /\ Len(Returned(result).rows) = 4
    /\ \E i \in 1..3 : Returned(result).rows[i].timestamp = now - 168

\* ------------------------------------------------------------------------
\* AIEngine._execute_analysis
\* ------------------------------------------------------------------------
\* Series.sum() and Series.mean() of a float column: NaN cells are skipped,
\* the mean of no cell is NaN
NanSum(rows, c) ==
    SumR(SelectSeq([i \in 1..Len(rows) |-> rows[i][c]], LAMBDA x : ~IsNaN(x)))

NanMean(rows, c) ==
    LET cells == SelectSeq([i \in 1..Len(rows) |-> rows[i][c]], LAMBDA x : ~IsNaN(x))
    IN IF cells = <<>> THEN NaN ELSE DivR(SumR(cells), Num(Len(cells)))

\* Series.idxmax(): the label of the first greatest value
IdxMax(keys, ValueOf(_)) ==
    keys[CHOOSE i \in 1..Len(keys) :
            /\ \A j \in 1..Len(keys) : ~Lt(ValueOf(keys[i]), ValueOf(keys[j]))
            /\ \A j \in 1..(i - 1) : Lt(ValueOf(keys[j]), ValueOf(keys[i]))]

\* df['Date'] = pd.to_datetime(df['timestamp']).dt.date
WithDate(df) ==
    [cols |-> df.cols \cup {"Date"},
     rows |-> [i \in 1..Len(df.rows) |->
                  SetCell(df.rows[i], "Date", DateOf(df.rows[i].timestamp))]]

\* df.groupby('Date')[c].sum().reset_index()
DailySum(rows, c) ==
    LET keys == GroupKeys(rows, "Date")
    IN [k \in 1..Len(keys) |->
           ("Date" :> keys[k]) @@ (c :> ColSum(GroupRows(rows, "Date", keys[k]), c))]

\* df.groupby('Line_ID')['Defect_Rate'].mean().reset_index()
LineStats(rows) ==
    LET keys == GroupKeys(rows, "Line_ID")
    IN [k \in 1..Len(keys) |->
           [Line_ID |-> keys[k],
            Defect_Rate |-> NanMean(GroupRows(rows, "Line_ID", keys[k]), "Defect_Rate")]]

\* A figure: the mark plotly draws, the table it draws and the columns of
\* the two axes
Figure(mark, data, x, y) == [mark |-> mark, data |-> data, x |-> x, y |-> y]

\* What _execute_analysis leaves: the heap, the insight, the figure and the
\* exception, if one left the call
Outcome(h, insight, fig) == [heap |-> h, insight |-> insight, fig |-> fig, raised |-> ""]
Failure(h, e) == [heap |-> h, insight |-> None, fig |-> None, raised |-> e]

\* A fixed text
Message(text) == [message |-> text]

\* 'phrase' in value.lower() for a value of the intent: None has no lower()
\* (the caller tests value # None first)
InLower(value, phrase) == Contains(Lower(value.val), phrase)

\* The chart of the sales branch by the visualization type: line, area,
\* otherwise bar, each over the daily revenue
SalesMark(visualization_type) ==
    IF InLower(visualization_type, "line") THEN "line"
    ELSE IF InLower(visualization_type, "area") THEN "area"
    ELSE "bar"

\* if 'sales' in analysis_type.lower() or 'revenue' in analysis_type.lower()
ExecuteSales(h, id, visualization_type) ==
    LET df == h[id]
        total_revenue == Num(ColSum(df.rows, "Revenue"))
        total_profit == IF "Profit" \in df.cols THEN NanSum(df.rows, "Profit")
                        ELSE Div(total_revenue.num * 40, 100)
        bySku == GroupKeys(df.rows, "SKU")
        SkuRevenue(k) == Num(ColSum(GroupRows(df.rows, "SKU", k), "Revenue"))
        figures == [kind |-> "sales",
                    total_revenue |-> total_revenue,
                    total_profit |-> total_profit,
                    profit_margin |-> Times(DivR(total_profit, total_revenue), 100)]
        insight == IF "SKU" \in df.cols
                   THEN [top_product |-> IdxMax(bySku, SkuRevenue),
                         top_revenue |-> SkuRevenue(IdxMax(bySku, SkuRevenue))]
                        @@ figures
                   ELSE figures
        dated == [h EXCEPT ![id] = WithDate(df)]
    IN IF "Revenue" \notin df.cols
       THEN Outcome(h, Message("Sales data not available in filtered results."), None)
       ELSE IF "SKU" \in df.cols /\ bySku = <<>>
       THEN Failure(h, "ValueError")
       ELSE IF "timestamp" \notin df.cols THEN Outcome(h, insight, None)
       ELSE IF visualization_type = None THEN Failure(dated, "AttributeError")
       ELSE Outcome(dated, insight,
                    Figure(SalesMark(visualization_type),
                           DailySum(dated[id].rows, "Revenue"), "Date", "Revenue"))

\* fig.add_hline(y=5): the threshold line of the manufacturing chart
ThresholdLine == 5

\* The chart of the manufacturing branch: bar, otherwise line, each over the
\* production lines
ManufacturingMark(visualization_type) ==
    IF InLower(visualization_type, "bar") THEN "bar" ELSE "line"

\* elif 'manufacturing' / 'quality' / 'defect' in analysis_type.lower()
ExecuteManufacturing(h, id, visualization_type) ==
    LET df == h[id]
        byLine == GroupKeys(df.rows, "Line_ID")
        line_stats == LineStats(df.rows)
        LineRate(k) == NanMean(GroupRows(df.rows, "Line_ID", k), "Defect_Rate")
        figures == [kind |-> "manufacturing",
                    avg_defect_rate |-> NanMean(df.rows, "Defect_Rate"),
                    total_produced |-> IF "Quantity_Produced" \in df.cols
                                       THEN ColSum(df.rows, "Quantity_Produced") ELSE 0,
                    total_defects |-> IF "Defects" \in df.cols
                                      THEN ColSum(df.rows, "Defects") ELSE 0]
        insight == IF "Line_ID" \in df.cols
                   THEN [worst_line |-> IdxMax(byLine, LineRate),
                         worst_rate |-> LineRate(IdxMax(byLine, LineRate))]
                        @@ figures
                   ELSE figures
    IN IF "Defect_Rate" \notin df.cols
       THEN Outcome(h, Message("Manufacturing data not available in filtered results."),
                    None)
       ELSE IF "Line_ID" \notin df.cols THEN Outcome(h, insight, None)
       ELSE IF byLine = <<>> THEN Failure(h, "ValueError")
       ELSE IF visualization_type = None THEN Failure(h, "AttributeError")
       ELSE Outcome(h, insight,
                    [hline |-> ThresholdLine]
                    @@ Figure(ManufacturingMark(visualization_type),
                              line_stats, "Line_ID", "Defect_Rate"))

\* (df['Pass_Fail_Status'].str.lower() == 'passed').sum()
PassedTests(rows) ==
    Cardinality({i \in 1..Len(rows) : Lower(rows[i].Pass_Fail_Status) = "passed"})

\* A pie with one slice per row that did not pass
PieSlicesPerRow(passed, failed) ==
    <<[label |-> "Passed", value |-> passed]>>
    \o [k \in 1..failed |-> [label |-> "Failed", value |-> 1]]

\* go.Pie(labels=['Passed', 'Failed'], values=[passed, failed])
PieSlices(passed, failed) ==
    <<[label |-> "Passed", value |-> passed], [label |-> "Failed", value |-> failed]>>

\* The table of the testing chart: Passed and Failed with their counts
StatusCounts(passed, failed) ==
    <<[Status |-> "Passed", Count |-> passed], [Status |-> "Failed", Count |-> failed]>>

\* The testing branch once the status column is known to be there
TestingAnalysis(h, id, visualization_type) ==
    LET df == h[id]
        total_tests == Len(df.rows)
        passed == PassedTests(df.rows)
        failed == total_tests - passed
        pass_rate == IF total_tests > 0 THEN Div(passed * 100, total_tests) ELSE Num(0)
        insight == [kind |-> "testing", total_tests |-> total_tests,
                    passed |-> passed, failed |-> failed, pass_rate |-> pass_rate]
    IN IF visualization_type = None THEN Failure(h, "AttributeError")
       ELSE IF InLower(visualization_type, "pie") \/ InLower(visualization_type, "donut")
       THEN Outcome(h, insight,
                    Figure("pie", PieSlices(passed, failed), "labels", "values"))
       ELSE Outcome(h, insight,
                    Figure("bar", StatusCounts(passed, failed), "Status", "Count"))

\* The testing branch reading the status column without testing for it
ExecuteTestingUnchecked(h, id, visualization_type) ==
    IF "Pass_Fail_Status" \notin h[id].cols THEN Failure(h, "KeyError")
    ELSE TestingAnalysis(h, id, visualization_type)

\* elif 'testing' in analysis_type.lower() or 'test' in analysis_type.lower()
ExecuteTesting(h, id, visualization_type) ==
    IF "Pass_Fail_Status" \notin h[id].cols
    THEN Outcome(h, Message("Testing data not available in filtered results."), None)
    ELSE TestingAnalysis(h, id, visualization_type)

\* df.loc[mask, 'Days_to_Depletion'] = Inventory_Level / Daily_Consumption
\* with mask = Daily_Consumption > 0: the new column is NaN off the mask
WithDaysToDepletion(df) ==
    [cols |-> df.cols \cup {"Days_to_Depletion"},
     rows |-> [i \in 1..Len(df.rows) |->
                  SetCell(df.rows[i], "Days_to_Depletion",
                          IF df.rows[i].Daily_Consumption > 0
                          THEN Div(df.rows[i].Inventory_Level,
                                   df.rows[i].Daily_Consumption)
                          ELSE NaN)]]

\* The chart of the inventory branch: line, otherwise area, each over the
\* daily inventory level
InventoryMark(visualization_type) ==
    IF InLower(visualization_type, "line") THEN "line" ELSE "area"

\* elif 'field' in analysis_type.lower() or 'inventory' in analysis_type.lower()
ExecuteInventory(h, id, visualization_type) ==
    LET df == h[id]
        consuming == "Daily_Consumption" \in df.cols
        df1 == IF consuming THEN WithDaysToDepletion(df) ELSE df
        avg_days == IF consuming THEN NanMean(df1.rows, "Days_to_Depletion") ELSE Num(0)
        critical_stores ==
            SelectSeq(df1.rows, LAMBDA r : Lt(r.Days_to_Depletion, Num(CriticalDays)))
        figures == [kind |-> "inventory",
                    total_inventory |-> ColSum(df.rows, "Inventory_Level"),
                    low_stock_alerts |-> IF "Low_Stock_Alerts" \in df.cols
                                         THEN ColSum(df.rows, "Low_Stock_Alerts") ELSE 0,
                    avg_days |-> avg_days]
        insight == IF "Store_ID" \in df.cols /\ critical_stores # <<>>
                   THEN [critical_stores |-> Len(critical_stores)] @@ figures
                   ELSE figures
        h1 == [h EXCEPT ![id] = df1]
        dated == [h EXCEPT ![id] = WithDate(df1)]
    IN IF "Inventory_Level" \notin df.cols
       THEN Outcome(h, Message("Field/Inventory data not available in filtered results."),
                    None)
       ELSE IF "Store_ID" \in df.cols /\ ~consuming THEN Failure(h1, "KeyError")
       ELSE IF "timestamp" \notin df.cols THEN Outcome(h1, insight, None)
       ELSE IF visualization_type = None THEN Failure(dated, "AttributeError")
       ELSE Outcome(dated, insight,
                    Figure(InventoryMark(visualization_type),
                           DailySum(dated[id].rows, "Inventory_Level"),
                           "Date", "Inventory_Level"))

\* The branches of _execute_analysis by the analysis type
ExecuteBranch(h, id, analysis_type, visualization_type) ==
    IF analysis_type = None THEN Failure(h, "AttributeError")
    ELSE IF InLower(analysis_type, "sales") \/ InLower(analysis_type, "revenue")
    THEN ExecuteSales(h, id, visualization_type)
    ELSE IF \/ InLower(analysis_type, "manufacturing")
            \/ InLower(analysis_type, "quality")
            \/ InLower(analysis_type, "defect")
    THEN ExecuteManufacturing(h, id, visualization_type)
    ELSE IF InLower(analysis_type, "testing") \/ InLower(analysis_type, "test")
    THEN ExecuteTesting(h, id, visualization_type)
    ELSE IF InLower(analysis_type, "field") \/ InLower(analysis_type, "inventory")
    THEN ExecuteInventory(h, id, visualization_type)
    ELSE Outcome(h, Message("Analysis type not recognized. Please try rephrasing your query."),
                 None)

\* The dispatcher without its test for an empty table
execute_analysis_unguarded(h, id, analysis_type, visualization_type) ==
    ExecuteBranch(h, id, analysis_type, visualization_type)

\* AIEngine._execute_analysis(df, analysis_type, visualization_type), df
\* being the object id of the heap h
execute_analysis(h, id, analysis_type, visualization_type) ==
    IF IsEmpty(h[id])
    THEN Outcome(h, Message("No data available for the specified filters."), None)
    ELSE ExecuteBranch(h, id, analysis_type, visualization_type)

\* ------------------------------------------------------------------------
\* The dispatcher as a state machine: a filtered table and an intent's
\* analysis type and visualization type are handed to _execute_analysis
\* ------------------------------------------------------------------------
\* The tables _apply_filters returns for the unified tables and filter specs
FilteredTables ==
    { FrameOf(apply_filters(<<t>>, 1, f, Now)) :
        <<t, f>> \in {p \in UnifiedTables \X FilterSpecs :
                        apply_filters(<<p[1]>>, 1, p[2], Now).raised = ""} }

\* analysis_type and visualization_type of an intent: a text of the prompt's
\* schema, another text, or null
AnalysisTypes ==
    {None} \cup {Val(v) : v \in {"sales_revenue", "manufacturing_quality", "testing",
                                 "field_inventory", "Sales", "forecast", ""}}

VisualizationTypes ==
    {None} \cup {Val(v) : v \in {"line_chart", "bar_chart", "area_chart",
                                 "pie_chart", "donut", "table"}}

InitDispatch ==
    /\ \E t \in FilteredTables : heap = <<t>>
    /\ arg = 1
    /\ given = heap[arg]
    /\ filters = None
    /\ now = Now
    /\ result = NoResult
    /\ prev = NoResult
    /\ intent \in [analysis_type : AnalysisTypes, visualization_type : VisualizationTypes]
    /\ api_key = None
    /\ session = FreshSession
    /\ pc = "dispatch"

\* insight, fig = self._execute_analysis(filtered_df, analysis_type,
\*                                        visualization_type)
ExecuteAnalysis ==
    /\ pc = "dispatch"
    /\ \E r \in {execute_analysis(heap, arg, intent.analysis_type,
                                    intent.visualization_type)} :
          /\ heap' = r.heap
          /\ result' = [insight |-> r.insight, fig |-> r.fig, raised |-> r.raised]
    /\ pc' = "dispatched"
    /\ UNCHANGED <<arg, given, filters, now, prev, intent, api_key, session>>

NextDispatch == ExecuteAnalysis

SpecDispatch == InitDispatch /\ [][NextDispatch]_vars

\* ------------------------------------------------------------------------
\* Properties of the dispatcher
\* ------------------------------------------------------------------------
\* C15: _execute_analysis given an empty filtered table returns the "no
\* data" message and no chart, for every analysis type and visualization
\* type, and does not raise.
C15_EmptyTableNoData ==
    (pc = "dispatched" /\ (given.cols = {} \/ given.rows = <<>>)) =>
        /\ result.raised = ""
        /\ result.insight = Message("No data available for the specified filters.")
        /\ result.fig = None
        /\ heap[arg] = given

C15_Witness ==
    /\ pc = "dispatched"
    /\ given.rows = <<>>
    /\ "Revenue" \in given.cols
    /\ intent = [analysis_type |-> Val("sales_revenue"),
                 visualization_type |-> Val("pie_chart")]
    /\ result.insight = Message("No data available for the specified filters.")
    /\ result.fig = None

\* The column _execute_analysis requires for the domain an analysis type of
\* the prompt's schema names, and the message that reports its absence
RequiredColumn ==
    [sales_revenue |-> "Revenue", manufacturing_quality |-> "Defect_Rate",
     testing |-> "Pass_Fail_Status", field_inventory |-> "Inventory_Level"]

MismatchMessage ==
    [sales_revenue |-> "Sales data not available in filtered results.",
     manufacturing_quality |-> "Manufacturing data not available in filtered results.",
     testing |-> "Testing data not available in filtered results.",
     field_inventory |-> "Field/Inventory data not available in filtered results."]

\* C16: when the column the requested domain requires is absent from the
\* non-empty filtered table, _execute_analysis returns the message naming
\* that domain's data as not available, with no chart, and does not raise,
\* for each of the four domains.
C16_MissingColumnsReported ==
    \A d \in DOMAIN RequiredColumn :
        (/\ pc = "dispatched"
         /\ given.rows # <<>>
         /\ intent.analysis_type = Val(d)
         /\ RequiredColumn[d] \notin given.cols) =>
            /\ result.raised = ""
            /\ result.insight = Message(MismatchMessage[d])
            /\ result.fig = None

C16_Witness ==
    /\ pc = "dispatched"
    /\ given.rows # <<>>
    /\ intent.analysis_type = Val("testing")
    /\ intent.visualization_type = None
    /\ "Pass_Fail_Status" \notin given.cols
    /\ "Revenue" \in given.cols
    /\ result.insight = Message("Testing data not available in filtered results.")
    /\ result.fig = None

\* C17: the shape of the chart data is determined by the requested
\* visualization kind, in every analysis domain: line and area give a
\* per-day series, bar gives a table over the categories of the domain, pie
\* gives a split into two categories.
C17_ShapeByVisualizationKind ==
    (/\ pc = "dispatched"
     /\ result.raised = ""
     /\ result.fig # None
     /\ intent.visualization_type # None) =>
        LET kind == intent.visualization_type.val
            fig == result.fig
        IN /\ kind \in {"line_chart", "area_chart"} => fig.x = "Date"
           /\ kind = "bar_chart" => (fig.mark = "bar" /\ fig.x # "Date")
           /\ kind = "pie_chart" => (fig.mark = "pie" /\ Len(fig.data) = 2)

\* C18: for the testing domain a "pie" visualization yields exactly two
\* slices, labelled Passed and Failed, whose values sum to the number of
\* filtered rows.
C18_TestingPieTwoSlices ==
    (/\ pc = "dispatched"
     /\ intent.analysis_type = Val("testing")
     /\ intent.visualization_type = Val("pie_chart")
     /\ given.rows # <<>>
     /\ "Pass_Fail_Status" \in given.cols) =>
        /\ result.raised = ""
        /\ result.fig # None
        /\ result.fig.mark = "pie"
        /\ Len(result.fig.data) = 2
        /\ result.fig.data[1].label = "Passed"
        /\ result.fig.data[2].label = "Failed"
        /\ result.fig.data[1].value + result.fig.data[2].value = Len(given.rows)

C18_Witness ==
    /\ pc = "dispatched"
    /\ intent.analysis_type = Val("testing")
    /\ intent.visualization_type = Val("pie_chart")
    /\ Len(given.rows) = 2
    /\ \A i \in 1..2 : given.rows[i].domain = "Testing"
    /\ result.fig.data = <<[label |-> "Passed", value |-> 1],
                           [label |-> "Failed", value |-> 1]>>

\* ------------------------------------------------------------------------
\* AIEngine._call_gemini_api and AIEngine.process_chat_query
\* ------------------------------------------------------------------------
\* JSON values as json.loads returns them; JSON null is Python's None
JDict(items) == [json |-> "dict", items |-> items]
JList(elems) == [json |-> "list", elems |-> elems]
JString(text) == [json |-> "string", text |-> text]

\* {} : the dict without keys
EmptyDict == [k \in {} |-> None]

\* bool(value) of a JSON value
Truthy(value) ==
    /\ value # None
    /\ value.json = "dict" => DOMAIN value.items # {}
    /\ value.json = "list" => value.elems # <<>>
    /\ value.json = "string" => value.text # ""

\* dict.get(key, default)
Get(d, key, default) == IF key \in DOMAIN d THEN d[key] ELSE default

\* What one HTTP exchange with the classifier can give: requests.post times
\* out, raise_for_status raises for the status, the body is not JSON, the
\* body holds no candidate, the candidate lacks content.parts[0].text, or the
\* candidate's text, which json.loads parses to a value or fails to parse
Timeout == [reply |-> "timeout"]
HttpError(status) == [reply |-> "http_error", status |-> status]
BadBody == [reply |-> "bad_body"]
NoCandidates == [reply |-> "no_candidates"]
MalformedCandidate == [reply |-> "malformed_candidate"]
Unparsable == [reply |-> "unparsable_text"]
Candidate(value) == [reply |-> "candidate", parsed |-> value]

\* One request: the value returned, the exception reported through st.error
\* (not returned) and the number of requests made
Requested(reply) ==
    CASE reply.reply = "timeout" ->
            [parsed |-> None, reported |-> "Timeout", posts |-> 1]
      [] reply.reply = "http_error" ->
            [parsed |-> None, reported |-> "HTTPError", posts |-> 1]
      [] reply.reply \in {"bad_body", "unparsable_text"} ->
            [parsed |-> None, reported |-> "JSONDecodeError", posts |-> 1]
      [] reply.reply = "malformed_candidate" ->
            [parsed |-> None, reported |-> "KeyError", posts |-> 1]
      [] reply.reply = "no_candidates" ->
            [parsed |-> None, reported |-> "", posts |-> 1]
      [] reply.reply = "candidate" ->
            [parsed |-> reply.parsed, reported |-> "", posts |-> 1]

\* A classifier call that asks once more when the first request gives nothing
call_gemini_api_retry(key, replies) ==
    IF key = None \/ key.val = ""
    THEN [parsed |-> None, reported |-> "", posts |-> 0]
    ELSE LET first == Requested(replies[1])
         IN IF first.parsed = None
            THEN [Requested(replies[2]) EXCEPT !.posts = 2]
            ELSE first

\* AIEngine._call_gemini_api(prompt), replies being what the classifier
\* would answer to successive requests
call_gemini_api(key, replies) ==
    IF key = None \/ key.val = ""
    THEN [parsed |-> None, reported |-> "", posts |-> 0]
    ELSE Requested(replies[1])

\* What process_chat_query leaves: the heap, the response text and figure,
\* the exception that left the call if one did, and the number of requests
\* made to the classifier
Answer(h, text, fig, posts) ==
    [heap |-> h, text |-> text, fig |-> fig, raised |-> "", posts |-> posts]
Thrown(h, e, posts) ==
    [heap |-> h, text |-> None, fig |-> None, raised |-> e, posts |-> posts]

KeyNotConfigured ==
    Message("Gemini API key not configured. Please add GEMINI_API_KEY to secrets.toml")
FailedToProcess == Message("Failed to process your question. Please try again.")
DefaultResponse ==
    Val("I understand your question. How can I help you with data analysis?")
DefaultExplanation == Val("Analyzing your data...")

\* min_date.strftime(...) of the data summary: NaT has no strftime
SummaryRaises(df) ==
    /\ ~IsEmpty(df)
    /\ "timestamp" \in df.cols
    /\ \A i \in 1..Len(df.rows) : df.rows[i].timestamp = NaT

\* The part of process_chat_query after the classifier's reply is parsed
Respond(h, id, parsed, posts, clock) ==
    IF ~Truthy(parsed) THEN Answer(h, FailedToProcess, None, posts)
    ELSE IF parsed.json # "dict" THEN Thrown(h, "AttributeError", posts)
    ELSE IF Get(parsed.items, "requires_visualization", FALSE) # TRUE
    THEN Answer(h, [message |-> Get(parsed.items, "response", DefaultResponse)],
                None, posts)
    ELSE LET explanation == Get(parsed.items, "explanation", DefaultExplanation)
             Analysed(filtered) ==
                 execute_analysis(filtered.heap, filtered.ref,
                                  Get(parsed.items, "analysis_type", Val("")),
                                  Get(parsed.items, "visualization_type",
                                      Val("bar_chart")))
             Full(analysed) ==
                 IF analysed.raised # ""
                 THEN Thrown(analysed.heap, analysed.raised, posts)
                 ELSE Answer(analysed.heap,
                             [explanation |-> explanation, insight |-> analysed.insight],
                             analysed.fig, posts)
             Dispatched(filtered) ==
                 IF filtered.raised # ""
                 THEN Thrown(filtered.heap, filtered.raised, posts)
                 ELSE Only({Full(analysed) : analysed \in {Analysed(filtered)}})
         IN Only({Dispatched(filtered) :
                    filtered \in {apply_filters(h, id,
                                                Get(parsed.items, "filters", EmptyDict),
                                                clock)}})

\* AIEngine.process_chat_query(user_message, full_df, chat_history), full_df
\* being the object id of the heap h
process_chat_query(h, id, key, replies, clock) ==
    IF key = None \/ key.val = "" THEN Answer(h, KeyNotConfigured, None, 0)
    ELSE IF SummaryRaises(h[id]) THEN Thrown(h, "ValueError", 0)
    ELSE Only({Respond(h, id, called.parsed, called.posts, clock) :
                 called \in {call_gemini_api(key, replies)}})

\* The replies of the classifier: those that give no intent, a
\* conversational response, and the intents
Intent(analysis_type, visualization_type, f) ==
    Candidate(JDict([requires_visualization |-> TRUE,
                     analysis_type |-> analysis_type,
                     visualization_type |-> visualization_type,
                     filters |-> f,
                     explanation |-> Val("Here is the analysis")]))

Conversational ==
    Candidate(JDict([requires_visualization |-> FALSE, response |-> Val("Hello!")]))

NoIntentReplies ==
    {Timeout, HttpError(500), BadBody, NoCandidates, MalformedCandidate, Unparsable,
     Candidate(None), Candidate(JDict(EmptyDict)), Candidate(JList(<<>>)),
     Candidate(JList(<<1>>)), Candidate(JString("")), Candidate(JString("sales")),
     Candidate(JDict([intent |-> Val("sales")]))}

\* The filter specs of the intents of a conversation
IntentFilters ==
    {None, EmptyDict,
     [time_range |-> Val("last week")],
     [time_range |-> Val("all"), domain |-> Val("Sales")],
     [domain |-> Val("Inventory"), store_id |-> Val(1)],
     [time_range |-> None, domain |-> Val("quality"), sku |-> None,
      line_id |-> Val(1), store_id |-> None]}

IntentReplies ==
    {Intent(a, v, f) : a \in AnalysisTypes, v \in VisualizationTypes, f \in IntentFilters}
    \cup {Candidate(JDict([requires_visualization |-> TRUE]))}

Replies == NoIntentReplies \cup {Conversational} \cup IntentReplies

ApiKeys == {None, Val(""), Val("AIza")}

\* ------------------------------------------------------------------------
\* One chat turn as a state machine: the engine, holding an API key or
\* none, is asked a question about a unified table, and the classifier
\* answers the requests it receives
\* ------------------------------------------------------------------------
InitQuery ==
    /\ \E t \in UnifiedTables : heap = <<t>>
    /\ arg = 1
    /\ given = heap[arg]
    /\ filters = None
    /\ now = Now
    /\ result = NoResult
    /\ prev = NoResult
    /\ \E r \in Replies : intent = <<r, Conversational>>
    /\ api_key \in ApiKeys
    /\ session = FreshSession
    /\ pc = "question"

\* response_text, fig = ai_engine.process_chat_query(user_input, full_df,
\*                                                    chat_context)
ProcessChatQuery ==
    /\ pc = "question"
    /\ \E r \in {process_chat_query(heap, arg, api_key, intent, now)} :
          /\ heap' = r.heap
          /\ result' = [text |-> r.text, fig |-> r.fig, raised |-> r.raised,
                        posts |-> r.posts]
    /\ pc' = "answered"
    /\ UNCHANGED <<arg, given, filters, now, prev, intent, api_key, session>>

NextQuery == ProcessChatQuery

SpecQuery == InitQuery /\ [][NextQuery]_vars

\* ------------------------------------------------------------------------
\* Properties of a chat turn
\* ------------------------------------------------------------------------
\* The first reply of the classifier carries no intent object, or the
\* engine has no API key to ask with
NoIntentObtained == intent[1] \in NoIntentReplies \/ api_key \in {None, Val("")}

\* C12: for every classifier outcome that is malformed, empty, an error or
\* a timeout (no API key, HTTP error, unparsable JSON, JSON that parses but
\* is not an intent object, no candidates), process_chat_query returns a
\* classification-failure message with no chart and does not raise.
C12_ClassificationFailureMessage ==
    (pc = "answered" /\ NoIntentObtained) =>
        /\ result.raised = ""
        /\ result.fig = None
        /\ result.text \in {FailedToProcess, KeyNotConfigured}

\* C14: one chat turn makes at most one request to the classifier: exactly
\* one when the engine holds an API key, none otherwise, also when the
\* request fails or times out.
C14_AtMostOneClassifierCall ==
    pc = "answered" =>
        result.posts = IF api_key \in {None, Val("")} THEN 0 ELSE 1

C14_Witness ==
    /\ pc = "answered"
    /\ api_key = Val("AIza")
    /\ intent[1] = Timeout
    /\ given.rows # <<>>
    /\ result.posts = 1
    /\ result.text = FailedToProcess

\* ------------------------------------------------------------------------
\* The AI Assistant page as a state machine: Load Data, Clear and the chat
\* input handler act on st.session_state
\* ------------------------------------------------------------------------
\* Bounds: the tables fetched and the questions submitted in one session
MaxLoads == 2
MaxTurns == 2

\* What fetch_all_data returns to the page: no row, the field documents
\* alone, every document
PageTables ==
    LET Fetched(s, m, t, f) ==
            fetch_all_data(get_sales_data(DocCols(SalesDocs), s),
                           get_manufacturing_data(DocCols(ManufacturingDocs), m),
                           get_testing_data(DocCols(TestingDocs), t),
                           get_field_data(DocCols(FieldDocs), f))
    IN {Fetched(<<>>, <<>>, <<>>, <<>>),
        Fetched(<<>>, <<>>, <<>>, FieldDocs),
        Fetched(SalesDocs, ManufacturingDocs, TestingDocs, FieldDocs)}

\* The classifier's replies to the questions of a session
PageReplies ==
    {Timeout, HttpError(500), Candidate(JList(<<1>>)), Conversational,
     Intent(Val("sales_revenue"), Val("line_chart"), [time_range |-> Val("last week")]),
     Intent(Val("field_inventory"), Val("area_chart"), None),
     Intent(Val("testing"), Val("pie_chart"), [time_range |-> None]),
     Intent(Val("manufacturing_quality"), Val("bar_chart"), [domain |-> Val("Sales")])}

\* An entry of chat_history
ChatMessage(type, text, chart, clock) ==
    [type |-> type, text |-> text, timestamp |-> clock, chart |-> chart]

\* The welcome message Load Data puts in the history
Welcome(df, clock) ==
    ChatMessage("assistant", [welcome |-> "Data Loaded Successfully",
                              records |-> Len(df.rows)], None, clock)

\* The message of the chat handler's except branch: a fixed text with
\* str(e) in it
ErrorText(e) == [message |-> "Error processing your query", detail |-> e]

\* The session holds no table, or one without rows
NoTable(s, h) == s.chat_full_df = None \/ IsEmpty(h[s.chat_full_df.val])

InitPage ==
    /\ heap = <<>>
    /\ arg = 0
    /\ given = EmptyFrame
    /\ filters = None
    /\ now = Now
    /\ result = NoResult
    /\ prev = NoResult
    /\ intent = None
    /\ api_key \in {None, Val("AIza")}
    /\ session = FreshSession
    /\ pc = "page"

\* A Load Data handler that adds the welcome message to the history it finds
LoadDataHandlerKeepsHistory(s, h, connected, fetched, clock) ==
    IF ~connected THEN [session |-> s, heap |-> h]
    ELSE LET stored == Alloc(h, fetched)
         IN [heap |-> stored.heap,
             session |->
                 IF ~IsEmpty(fetched)
                 THEN [chat_history |-> Append(s.chat_history, Welcome(fetched, clock)),
                       chat_full_df |-> Val(stored.ref),
                       data_loaded |-> TRUE]
                 ELSE [s EXCEPT !.chat_full_df = Val(stored.ref)]]

\* The Load Data handler: nothing changes when the connection fails;
\* otherwise the fetched table, a new object, is stored, and when it has
\* rows the history is replaced by the welcome message
LoadDataHandler(s, h, connected, fetched, clock) ==
    IF ~connected THEN [session |-> s, heap |-> h]
    ELSE LET stored == Alloc(h, fetched)
         IN [heap |-> stored.heap,
             session |->
                 IF ~IsEmpty(fetched)
                 THEN [chat_history |-> <<Welcome(fetched, clock)>>,
                       chat_full_df |-> Val(stored.ref),
                       data_loaded |-> TRUE]
                 ELSE [s EXCEPT !.chat_full_df = Val(stored.ref)]]

\* The Clear handler
ClearHandler(s) ==
    [chat_history |-> <<>>, chat_full_df |-> None, data_loaded |-> FALSE]

\* chat_context: for i in range(0, len(chat_history) - 1, 2) the pair of
\* the entries i and i + 1, the first as 'user', the second as 'assistant'
ChatContext(history) ==
    [k \in 1..(Len(history) \div 2) |->
        [user |-> history[2 * k - 1].text, assistant |-> history[2 * k].text]]

\* A turn that records no assistant message when the engine raises
ChatTurnSilentOnError(s, h, key, user_input, replies, clock) ==
    LET asked == Append(s.chat_history,
                        ChatMessage("user", Message(user_input), None, clock))
        Turn(r) == [session |->
                        [s EXCEPT !.chat_history =
                            IF r.raised = ""
                            THEN Append(asked, ChatMessage("assistant", r.text,
                                                           r.fig, clock))
                            ELSE asked],
                    heap |-> SubSeq(r.heap, 1, Len(h)),
                    posts |-> r.posts, raised |-> r.raised, gated |-> FALSE,
                    chat_context |-> ChatContext(asked)]
    IN Only({Turn(r) :
               r \in {process_chat_query(h, s.chat_full_df.val, key, replies, clock)}})

\* The turn of the chat handler once the table is known to hold rows: the
\* user message, the context, the call of the engine with them, the
\* assistant message.  The tables the engine made for the call are dropped
\* with its return.
ChatTurn(s, h, key, user_input, replies, clock) ==
    LET asked == Append(s.chat_history,
                        ChatMessage("user", Message(user_input), None, clock))
        Reply(r) == IF r.raised = ""
                    THEN ChatMessage("assistant", r.text, r.fig, clock)
                    ELSE ChatMessage("assistant", ErrorText(r.raised), None, clock)
        Turn(r) == [session |-> [s EXCEPT !.chat_history = Append(asked, Reply(r))],
                    heap |-> SubSeq(r.heap, 1, Len(h)),
                    posts |-> r.posts, raised |-> r.raised, gated |-> FALSE,
                    chat_context |-> ChatContext(asked)]
    IN Only({Turn(r) :
               r \in {process_chat_query(h, s.chat_full_df.val, key, replies, clock)}})

\* A chat handler that answers whether or not a table is loaded
ChatInputUngated(s, h, key, user_input, replies, clock) ==
    IF user_input = "" \/ s.chat_full_df = None
    THEN [session |-> s, heap |-> h, posts |-> 0, raised |-> "",
          gated |-> user_input # "", chat_context |-> <<>>]
    ELSE ChatTurn(s, h, key, user_input, replies, clock)

\* The chat input handler: if submit_button and user_input
ChatInput(s, h, key, user_input, replies, clock) ==
    IF user_input = "" \/ NoTable(s, h)
    THEN [session |-> s, heap |-> h, posts |-> 0, raised |-> "",
          gated |-> user_input # "", chat_context |-> <<>>]
    ELSE ChatTurn(s, h, key, user_input, replies, clock)

UserInputs == {"", "Show me sales revenue trends"}

\* The user messages of a history
Questions(history) == SelectSeq(history, LAMBDA msg : msg.type = "user")

LoadData ==
    /\ Len(heap) < MaxLoads
    /\ \E connected \in BOOLEAN, fetched \in PageTables :
          \E r \in {LoadDataHandler(session, heap, connected, fetched, now)} :
             /\ heap' = r.heap
             /\ session' = r.session
             /\ result' = [action |-> "load", connected |-> connected,
                           discarded |-> IF connected /\ ~IsEmpty(fetched)
                                         THEN Len(session.chat_history) ELSE 0]
    /\ pc' = "loaded"
    /\ UNCHANGED <<arg, given, filters, now, prev, intent, api_key>>

Clear ==
    /\ session' = ClearHandler(session)
    /\ result' = [action |-> "clear"]
    /\ pc' = "cleared"
    /\ UNCHANGED <<heap, arg, given, filters, now, prev, intent, api_key>>

SubmitQuestion ==
    /\ Len(Questions(session.chat_history)) < MaxTurns
    /\ \E user_input \in UserInputs, reply \in PageReplies :
          \E r \in {ChatInput(session, heap, api_key, user_input,
                               <<reply, Conversational>>, now)} :
             /\ heap' = r.heap
             /\ session' = r.session
             /\ intent' = <<reply, Conversational>>
             /\ result' = [action |-> "ask", user_input |-> user_input,
                           gated |-> r.gated, posts |-> r.posts,
                           raised |-> r.raised, chat_context |-> r.chat_context]
    /\ pc' = "asked"
    /\ UNCHANGED <<arg, given, filters, now, prev, api_key>>

NextPage ==
    \/ LoadData
    \/ Clear
    \/ SubmitQuestion

SpecPage == InitPage /\ [][NextPage]_vars

\* ------------------------------------------------------------------------
\* Properties of the AI Assistant page
\* ------------------------------------------------------------------------
\* The table the session holds
SessionTable(s, h) == h[s.chat_full_df.val]

\* C13: the assistant text recorded in the conversation never carries
\* exception or transport detail: when the classify-filter-dispatch pipeline
\* fails in a turn, the assistant message of the turn is a fixed message.
C13_NoExceptionDetailInConversation ==
    /\ \A i \in 1..Len(session.chat_history) :
          session.chat_history[i].type = "assistant"
             => "detail" \notin DOMAIN session.chat_history[i].text
    /\ (pc = "asked" /\ ~result.gated /\ result.user_input # ""
          /\ (result.raised # "" \/ intent[1] \in NoIntentReplies)) =>
          session.chat_history[Len(session.chat_history)].text
              \in {FailedToProcess, KeyNotConfigured}

\* A question was submitted while the session held no table with rows
GatedStep ==
    /\ pc' = "asked"
    /\ result'.user_input # ""
    /\ NoTable(session, heap)

\* C19: the table of the session changes only with Load Data or Clear;
\* while the session holds no table with rows (at the start, after Clear,
\* after a Load that fetched no row) a submitted question makes no request
\* to the classifier and leaves the chat history as it is.
C19_TableOnlyByLoadOrClear ==
    /\ (pc = "page" => NoTable(session, heap))
    /\ [][/\ session'.chat_full_df # session.chat_full_df
                => pc' \in {"loaded", "cleared"}
          /\ (pc' = "asked" /\ session.chat_full_df # None)
                => SessionTable(session', heap') = SessionTable(session, heap)
          /\ pc' = "cleared" => NoTable(session', heap')
          /\ (pc' = "loaded" /\ session'.chat_full_df # session.chat_full_df
                /\ SessionTable(session', heap').rows = <<>>)
                => (NoTable(session', heap')
                    /\ session'.chat_history = session.chat_history)
          /\ GatedStep => (/\ result'.gated
                           /\ result'.posts = 0
                           /\ session' = session
                           /\ heap' = heap)]_vars

C19_Witness ==
    /\ pc = "asked"
    /\ result.gated
    /\ session.chat_full_df = Val(2)
    /\ session.data_loaded
    /\ heap[1].rows # <<>>
    /\ heap[2].rows = <<>>
    /\ Len(session.chat_history) = 1
    /\ result.posts = 0

\* C20: answering a question leaves the table of the session, its rows and
\* its columns, as it was, for every intent; Load Data stores a new table
\* object and leaves the objects already there as they were.
C20_SessionTableReadOnly ==
    [][/\ (pc' = "asked" /\ session.chat_full_df # None) =>
             /\ session'.chat_full_df = session.chat_full_df
             /\ SessionTable(session', heap') = SessionTable(session, heap)
       /\ pc' = "loaded" =>
             /\ \A i \in 1..Len(heap) : heap'[i] = heap[i]
             /\ session'.chat_full_df # session.chat_full_df =>
                   /\ session'.chat_full_df.val \notin 1..Len(heap)
                   /\ session'.chat_full_df.val \in 1..Len(heap')]_vars

C20_Witness ==
    /\ pc = "asked"
    /\ ~result.gated
    /\ result.user_input # ""
    /\ result.raised = ""
    /\ intent[1] = Intent(Val("field_inventory"), Val("area_chart"), None)
    /\ session.chat_history[Len(session.chat_history)].chart # None
    /\ session.chat_history[Len(session.chat_history)].chart.x = "Date"
    /\ \A i \in 1..Len(SessionTable(session, heap).rows) :
          SessionTable(session, heap).rows[i].Date
              # DateOf(SessionTable(session, heap).rows[i].timestamp)
    /\ "Days_to_Depletion" \notin SessionTable(session, heap).cols
    /\ Len(heap) = 2

\* ------------------------------------------------------------------------
\* The dispatcher against the aggregators
\* ------------------------------------------------------------------------
\* The dispatcher took the manufacturing branch on a table that holds the
\* manufacturing columns, and returned
ManufacturingAnswered ==
    /\ pc = "dispatched"
    /\ intent.analysis_type = Val("manufacturing_quality")
    /\ ~IsEmpty(given)
    /\ {"Defect_Rate", "Quantity_Produced", "Defects", "Line_ID"} \subseteq given.cols
    /\ result.raised = ""

\* C21: for every non-empty filtered table with the manufacturing columns,
\* the average defect rate _execute_analysis reports equals the
\* avg_defect_rate analyze_quality computes for the same rows (total defects
\* over total produced), and the per-line rates it charts equal the
\* per-line rates of line_performance.
C21_ManufacturingBranchRefinesQuality ==
    ManufacturingAnswered =>
        \A q \in {analyze_quality(given)} :
            /\ result.insight.avg_defect_rate = q.avg_defect_rate
            /\ result.fig # None =>
                  \A k \in 1..Len(result.fig.data) :
                      \E j \in 1..Len(q.line_performance.rows) :
                          /\ q.line_performance.rows[j].Line_ID
                               = result.fig.data[k].Line_ID
                          /\ q.line_performance.rows[j].Defect_Rate
                               = result.fig.data[k].Defect_Rate

\* ------------------------------------------------------------------------
\* Further properties of the aggregators
\* ------------------------------------------------------------------------
\* C22: in the result of analyze_quality every Line_ID group and every day
\* group whose summed Quantity_Produced is 0 has Defect_Rate 0, whatever
\* its Defects sum is, and such a line is not listed in anomalies.
C22_ZeroProducedGroupRateZero ==
    (pc = "quality_done" /\ InRows # <<>>) =>
        /\ \A k \in 1..Len(result.line_performance.rows) :
              result.line_performance.rows[k].Quantity_Produced = 0 =>
                  /\ result.line_performance.rows[k].Defect_Rate = Num(0)
                  /\ result.line_performance.rows[k].Line_ID
                         \notin Range(result.anomalies)
        /\ \A k \in 1..Len(result.defect_trend.rows) :
              result.defect_trend.rows[k].Quantity_Produced = 0 =>
                  result.defect_trend.rows[k].Defect_Rate = Num(0)

\* The dispatcher took the sales branch on a table that has the Revenue
\* column, with a visualization type that is a text
SalesDispatched ==
    /\ pc = "dispatched"
    /\ intent.analysis_type \in {Val("sales_revenue"), Val("Sales")}
    /\ intent.visualization_type # None
    /\ ~IsEmpty(given)
    /\ "Revenue" \in given.cols

\* C23: in the sales branch of _execute_analysis, when the filtered rows
\* have total Revenue 0 (a filtered table that holds only rows of other
\* domains included), the reported profit margin is 0, not NaN, and the
\* call does not raise.
C23_SalesBranchZeroRevenueMargin ==
    (SalesDispatched /\ ColSum(given.rows, "Revenue") = 0) =>
        /\ result.raised = ""
        /\ result.insight.profit_margin = Num(0)

\* The calendar days of the input rows, from their timestamps
InputDays == {InRows[i].timestamp \div 24 : i \in 1..Len(InRows)}

\* The trend table has one row per day of the input, in strictly ascending
\* date order
OneRowPerDayAscending(trend) ==
    /\ {trend[k].Date : k \in 1..Len(trend)} = InputDays
    /\ \A k \in 1..(Len(trend) - 1) : trend[k].Date < trend[k + 1].Date

\* Column c of each trend row is the sum of c over the input rows of its day
DaySums(trend, c) ==
    \A k \in 1..Len(trend) :
        trend[k][c] = SumWhere(c, LAMBDA r : r.timestamp \div 24 = trend[k].Date)

\* C24: for every input row order each trend output (revenue_trend,
\* defect_trend, inventory_trend) has exactly one row per calendar day of the
\* input, in strictly ascending date order, each value being the sum over
\* all input rows of that day (Profit being 40% of Revenue, the sum of the
\* profits is 40% of the summed revenue); top_products has one row per SKU
\* with summed values, in descending Revenue order, and keeps the 10 SKUs of
\* greatest revenue.
C24_TrendsAndRanking ==
    /\ (pc = "sales_done" /\ InRows # <<>> /\ "timestamp" \in heap[arg].cols) =>
          /\ OneRowPerDayAscending(result.revenue_trend.rows)
          /\ DaySums(result.revenue_trend.rows, "Revenue")
          /\ \A k \in 1..Len(result.revenue_trend.rows) :
                result.revenue_trend.rows[k].Profit
                  = Div(40 * result.revenue_trend.rows[k].Revenue, 100)
    /\ (pc = "quality_done" /\ InRows # <<>> /\ "timestamp" \in heap[arg].cols) =>
          /\ OneRowPerDayAscending(result.defect_trend.rows)
          /\ DaySums(result.defect_trend.rows, "Quantity_Produced")
          /\ DaySums(result.defect_trend.rows, "Defects")
    /\ (pc = "inventory_done" /\ InRows # <<>> /\ "timestamp" \in heap[arg].cols) =>
          /\ OneRowPerDayAscending(result.inventory_trend.rows)
          /\ DaySums(result.inventory_trend.rows, "Inventory_Level")
          /\ DaySums(result.inventory_trend.rows, "Low_Stock_Alerts")
    /\ (pc = "sales_done" /\ InRows # <<>> /\ "SKU" \in heap[arg].cols) =>
          LET top == result.top_products.rows
              skus == {InRows[i].SKU : i \in 1..Len(InRows)}
              listed == {top[k].SKU : k \in 1..Len(top)}
              Revenue(sku) == SumWhere("Revenue", LAMBDA r : r.SKU = sku)
          IN /\ listed \subseteq skus
             /\ Cardinality(listed) = Len(top)
             /\ Len(top) = IF Cardinality(skus) <= TopProducts
                           THEN Cardinality(skus) ELSE TopProducts
             /\ \A k \in 1..Len(top) :
                   /\ top[k].Revenue = Revenue(top[k].SKU)
                   /\ top[k].Quantity
                        = SumWhere("Quantity", LAMBDA r : r.SKU = top[k].SKU)
                   /\ top[k].Profit = Div(40 * top[k].Revenue, 100)
             /\ \A k \in 1..(Len(top) - 1) : top[k].Revenue >= top[k + 1].Revenue
             /\ \A sku \in skus \ listed :
                   \A k \in 1..Len(top) : top[k].Revenue >= Revenue(sku)

\* Eleven SKUs over two days, the later day first in the input: the trend
\* has the two days in order with the revenue of all rows, the ranking
\* keeps ten SKUs and leaves out one of least revenue
C24_Witness ==
    /\ pc = "sales_done"
    /\ Len(InRows) = TopProducts + 1
    /\ InRows[1].timestamp > InRows[2].timestamp
    /\ Len(result.revenue_trend.rows) = 2
    /\ result.revenue_trend.rows[1].Revenue + result.revenue_trend.rows[2].Revenue
         = TotalOf("Revenue")
    /\ result.revenue_trend.rows[1].Revenue > 250
    /\ Len(result.top_products.rows) = TopProducts
    /\ result.top_products.rows[1].Revenue = 250
    /\ result.top_products.rows[TopProducts].Revenue = 100

\* C25: each aggregator (analyze_sales, analyze_quality, analyze_inventory,
\* analyze_testing) leaves the table passed to it unchanged, adding or
\* overwriting no column of the caller's table: the table the page stores
\* after the call equals the table the retriever returned.
C25_AggregatorsLeaveInputUnchanged ==
    pc \in {"sales_done", "quality_done", "inventory_done", "testing_done"} =>
        heap[arg] = given

\* ------------------------------------------------------------------------
\* Further properties of the AI Assistant page
\* ------------------------------------------------------------------------
\* C26: in every state reachable by Load Data, Clear and question
\* submissions, data_loaded is true only if chat_full_df is a non-null,
\* non-empty table.
C26_DataLoadedOnlyWithTable ==
    session.data_loaded =>
        /\ session.chat_full_df # None
        /\ ~IsEmpty(SessionTable(session, heap))

\* A question went through the gate: the engine was called and the turn's
\* two messages are in the history
Answered ==
    /\ pc = "asked"
    /\ result.user_input # ""
    /\ ~result.gated

\* C27: in every context list handed to process_chat_query, each pair's
\* 'user' text is the text of a user-typed history entry and its
\* 'assistant' text is the text of the assistant entry that answered that
\* question, for every history reachable after a successful Load.
C27_ContextPairsQuestionWithAnswer ==
    Answered =>
        \A k \in 1..Len(result.chat_context) :
            \E i \in 1..(Len(session.chat_history) - 1) :
                /\ session.chat_history[i].type = "user"
                /\ session.chat_history[i].text = result.chat_context[k].user
                /\ session.chat_history[i + 1].type = "assistant"
                /\ session.chat_history[i + 1].text = result.chat_context[k].assistant

\* The history is a welcome entry of the assistant followed by user and
\* assistant entries in strict alternation
WelcomeThenAlternating(history) ==
    /\ Len(history) % 2 = 1
    /\ history[1].type = "assistant"
    /\ "welcome" \in DOMAIN history[1].text
    /\ \A i \in 2..Len(history) :
          history[i].type = IF i % 2 = 0 THEN "user" ELSE "assistant"

C30_TestingBranchAgreesWithAggregator ==
    (/\ pc = "dispatched"
     /\ intent.analysis_type = Val("testing")
     /\ ~IsEmpty(given)
     /\ "Pass_Fail_Status" \in given.cols
     /\ result.raised = "") =>
        \A t \in {analyze_testing(given)} :
            /\ result.insight.failed = t.failed_tests
            /\ result.insight.pass_rate = t.pass_rate

=============================================================================
